---- MODULE Spec2Model ----
(***************************************************************************)
(* Model of SoftBodySystem (src/utils/softBodySystem.ts, first class       *)
(* definition, lines 4-1285) as driven by predictWebcam and the key        *)
(* handlers of src/components/Visualizer.tsx.                              *)
(*                                                                         *)
(* Numbers.  The program computes in IEEE doubles.  The model computes in  *)
(* fixed point: every length, coordinate and velocity is an integer        *)
(* number of hundredths (Scale = 100), quaternion components are integers  *)
(* in ten-thousandths (QScale), and every product with a fractional        *)
(* factor is truncated toward zero to the next hundredth.  The glow of a   *)
(* rigid body is kept as the double it is (section Doubles), because its   *)
(* decay is compared with 0 and 0.5 after repeated rounding.               *)
(***************************************************************************)
EXTENDS Integers, Sequences, FiniteSets, TLC

(* ---------------------------------------------------------------------- *)
(* Fixed-point arithmetic                                                  *)
(* ---------------------------------------------------------------------- *)

\* hundredths per unit
Scale == 100

\* ten-thousandths per unit, quaternion components and radians of half angles
QScale == 10000

Abs(a) == IF a < 0 THEN -a ELSE a

Max2(a, b) == IF a >= b THEN a ELSE b

\* a / b truncated toward zero, b > 0
Div(a, b) == IF a >= 0 THEN a \div b ELSE -((-a) \div b)

\* a * (pct / 100), the product with a factor given in hundredths
MulF(a, pct) == Div(a * pct, 100)

\* Px(n): n pixels in fixed point
Px(n) == n * Scale

RECURSIVE SqrtIter(_, _)
\* Newton iteration for the integer square root, started above the root
SqrtIter(n, r) ==
    LET r2 == (r + n \div r) \div 2
    IN  IF r2 >= r THEN r ELSE SqrtIter(n, r2)

RECURSIVE Hypot(_, _)
\* Math.sqrt(dx*dx + dy*dy) of two fixed-point differences, in fixed point.
\* Differences too large to be squared (above 32000) are halved first, which costs one
\* hundredth of precision per halving (doubles, too, have relative precision).
Hypot(dx, dy) ==
    IF Abs(dx) <= 32000 /\ Abs(dy) <= 32000
    THEN IF dx = 0 /\ dy = 0 THEN 0
         ELSE SqrtIter(dx * dx + dy * dy, Abs(dx) + Abs(dy))
    ELSE 2 * Hypot(Div(dx, 2), Div(dy, 2))

(* ---------------------------------------------------------------------- *)
(* 3D math helpers                                                         *)
(* ---------------------------------------------------------------------- *)

vAdd(a, b) == [x |-> a.x + b.x, y |-> a.y + b.y, z |-> a.z + b.z]

\* vScale with the factor s given in hundredths
vScale(a, s) == [x |-> MulF(a.x, s), y |-> MulF(a.y, s), z |-> MulF(a.z, s)]

ZeroV == [x |-> 0, y |-> 0, z |-> 0]

\* the rotation every spawner gives a new body
IdentityQ == [x |-> 0, y |-> 0, z |-> 0, w |-> QScale]

\* Hamilton product q1 (x) q2 on QScale components
qMult(q1, q2) ==
    [x |-> Div(q1.w * q2.x + q1.x * q2.w + q1.y * q2.z - q1.z * q2.y, QScale),
     y |-> Div(q1.w * q2.y - q1.x * q2.z + q1.y * q2.w + q1.z * q2.x, QScale),
     z |-> Div(q1.w * q2.z + q1.x * q2.y - q1.y * q2.x + q1.z * q2.w, QScale),
     w |-> Div(q1.w * q2.w - q1.x * q2.x - q1.y * q2.y - q1.z * q2.z, QScale)]

\* Math.sin of an angle h given in ten-thousandths of a radian, |h| < 1 rad:
\* h - h^3/6
Sin(h) == h - Div(Div(h * h, QScale) * h, 6 * QScale)

\* Math.cos of an angle h given in ten-thousandths of a radian, |h| < 1 rad:
\* 1 - h^2/2 + h^4/24
Cos(h) ==
    LET h2 == Div(h * h, QScale)
    IN  QScale - Div(h2, 2) + Div(Div(h2 * h2, QScale), 24)

\* qFromAxisAngle(axis, angle): axis has integer components, angle is in
\* ten-thousandths of a radian
qFromAxisAngle(axis, angle) ==
    LET halfAngle == Div(angle, 2)
        s == Sin(halfAngle)
    IN  [x |-> axis.x * s, y |-> axis.y * s, z |-> axis.z * s, w |-> Cos(halfAngle)]

(* ---------------------------------------------------------------------- *)
(* Bounds of the model                                                     *)
(* ---------------------------------------------------------------------- *)

\* numHands: hands the hand landmarker reports at most (actor ids 0, 1)
NumActors == 2

\* rigid bodies spawned at most between two resets
MaxBodies == 3

\* soft bodies spawned at most between two resets
MaxObjects == 1

\* readings of the millisecond clock by the spawners at most
MaxSpawns == 3

\* update calls at most
MaxTime == 3

\* rigid bodies and update calls at most where both kinds of bodies are spawned
MaxBodiesBoth == 2

MaxTimeBoth == 2

\* update calls at most where a stack is built and taken apart again
MaxTimeStack == 5

\* update calls at most where a stack is turned upside down
MaxTimeCycle == 6

\* update calls at most where a point of the castle is pulled to the wall
MaxTimePull == 5

\* update calls at most where the glow of a body is left to decay
MaxTimeGlow == 9

\* canvas width and height in pixels
Width == 1000

Height == 480

Actors == 0 .. (NumActors - 1)

\* snapTarget of a body that is not stacked, candidate of a failed search
Null == <<>>

\* rigidBodies, heldObjects, objects, mouseSprings, time: the fields of
\* SoftBodySystem.  now: the value Date.now() returned last.  turn, stage,
\* cur: the position of predictWebcam in its loop over the hands.
\* grabbed: history variable, for each actor whether its hold record was
\* created in the current frame ("now"), in the frame before ("last"),
\* earlier ("old"), or does not exist ("no").
\* freed: history variable, the ids of the bodies that were released since
\* the last update without checkSnapping finding a body to stack them on.
VARIABLES rigidBodies, heldObjects, objects, mouseSprings, time, now,
          turn, stage, cur, grabbed, freed

vars == <<rigidBodies, heldObjects, objects, mouseSprings, time, now,
          turn, stage, cur, grabbed, freed>>

(* ---------------------------------------------------------------------- *)
(* Doubles                                                                 *)
(* ---------------------------------------------------------------------- *)

\* A double d with |d| < 2 that is a multiple of 2^-57 is kept as the two
\* limbs of d * 2^57 = hi * 2^30 + lo, 0 <= lo < 2^30.
DoubleLimb == 1073741824

Dbl(hi, lo) == [hi |-> hi, lo |-> lo]

\* a < b
DLess(a, b) == a.hi < b.hi \/ (a.hi = b.hi /\ a.lo < b.lo)

\* Math.max(a, b)
DMax(a, b) == IF DLess(a, b) THEN b ELSE a

\* the distance of neighbouring doubles, in units of 2^-57, in the binade of
\* a number with high limb hi: 53 bits of mantissa; below 2^-4 every
\* multiple of 2^-57 is a double
DoubleUlp(hi) ==
    IF hi >= 134217728 THEN 32
    ELSE IF hi >= 67108864 THEN 16
    ELSE IF hi >= 33554432 THEN 8
    ELSE IF hi >= 16777216 THEN 4
    ELSE IF hi >= 8388608 THEN 2
    ELSE 1

\* a - b: the exact difference rounded to the nearest double, ties to the
\* even mantissa; a >= 0, b >= 0 and a - b > -2^-4
DSub(a, b) ==
    LET borrow == IF a.lo < b.lo THEN 1 ELSE 0
        hi == a.hi - b.hi - borrow
        lo == a.lo - b.lo + borrow * DoubleLimb
        u == DoubleUlp(hi)
        q == lo \div u
        r == lo % u
        up == 2 * r > u \/ (2 * r = u /\ q % 2 = 1)
        rounded == (IF up THEN q + 1 ELSE q) * u
    IN  IF rounded = DoubleLimb THEN Dbl(hi + 1, 0) ELSE Dbl(hi, rounded)

\* the values glow is set to and compared with: 0, 1.0, 0.5, 0.4, and the
\* decay of 0.05 per tick
GlowNone == Dbl(0, 0)

GlowFull == Dbl(134217728, 0)

GlowHalf == Dbl(67108864, 0)

GlowHover == Dbl(53687091, 214748368)

GlowDecay == Dbl(6710886, 429496730)

(* ---------------------------------------------------------------------- *)
(* Rigid bodies: spawners                                                  *)
(* ---------------------------------------------------------------------- *)

\* the object literal pushed by spawnCube3D / spawnPyramid3D
NewBody(prefix, type, x, y, ms) ==
    [id |-> <<prefix, ms>>, type |-> type,
     position |-> [x |-> x, y |-> y, z |-> 0],
     rotation |-> IdentityQ,
     scale |-> [x |-> 1, y |-> 1, z |-> 1],
     velocity |-> ZeroV,
     isHeld |-> FALSE, snapTarget |-> Null, snapTimer |-> 0, glow |-> GlowNone]

(* ---------------------------------------------------------------------- *)
(* Rigid bodies: interaction                                               *)
(* ---------------------------------------------------------------------- *)

\* closestDist before any body was seen
Infinity == 2000000000

\* base size of the volumetric collider, pixels
ColliderBase == 60

\* Scale * 60 (base size) * 0.7 (radius factor) * 1.3 (margin)
colliderRadius(body) ==
    LET size == Max2(body.scale.x, Max2(body.scale.y, body.scale.z)) * Px(ColliderBase)
    IN  MulF(MulF(size, 70), 130)

\* distance on the screen plane between a body and (x, y)
ScreenDist(body, x, y) == Hypot(body.position.x - x, body.position.y - y)

RECURSIVE GrabScanNoRadius(_, _, _, _, _, _)
\* the grab scan without the collider test: the nearest body wins, however
\* far it is from the hand
GrabScanNoRadius(bodies, i, x, y, closestDist, target) ==
    IF i > Len(bodies) THEN target
    ELSE LET dist == ScreenDist(bodies[i], x, y)
         IN  IF dist < closestDist
             THEN GrabScanNoRadius(bodies, i + 1, x, y, dist, i)
             ELSE GrabScanNoRadius(bodies, i + 1, x, y, closestDist, target)

RECURSIVE GrabScanLastTie(_, _, _, _, _, _)
\* the grab scan with <= in the comparison of distances: of two bodies
\* equally near the later one wins
GrabScanLastTie(bodies, i, x, y, closestDist, target) ==
    IF i > Len(bodies) THEN target
    ELSE LET dist == ScreenDist(bodies[i], x, y)
         IN  IF dist < colliderRadius(bodies[i]) /\ dist <= closestDist
             THEN GrabScanLastTie(bodies, i + 1, x, y, dist, i)
             ELSE GrabScanLastTie(bodies, i + 1, x, y, closestDist, target)

RECURSIVE GrabScan(_, _, _, _, _, _)
\* the for-loop of the grab branch from body i on; target is an index, 0 for null
GrabScan(bodies, i, x, y, closestDist, target) ==
    IF i > Len(bodies) THEN target
    ELSE LET dist == ScreenDist(bodies[i], x, y)
         IN  IF dist < colliderRadius(bodies[i]) /\ dist < closestDist
             THEN GrabScan(bodies, i + 1, x, y, dist, i)
             ELSE GrabScan(bodies, i + 1, x, y, closestDist, target)

GrabTarget(bodies, x, y) == GrabScan(bodies, 1, x, y, Infinity, 0)

\* rigidBodies.find(b => b.id === id): index of the first match, 0 for undefined
FindBody(bodies, id) ==
    IF \E i \in 1 .. Len(bodies) : bodies[i].id = id
    THEN CHOOSE i \in 1 .. Len(bodies) :
             /\ bodies[i].id = id
             /\ \A j \in 1 .. (i - 1) : bodies[j].id # id
    ELSE 0

\* stack detection threshold on x and z, pixels
SnapThreshold == 50

\* expectedDist: vertical distance of two stacked bodies, pixels
ExpectedDist == 60

\* slack added to expectedDist in the vertical test, pixels
SnapSlack == 40

\* ticks of the stabilization lock
SnapLock == 20

\* the test of checkSnapping with a vertical test that takes a body above
\* the active one, or level with it, as well
SnapMatchEitherSide(active, other) ==
    /\ other.id # active.id
    /\ Abs(active.position.x - other.position.x) < Px(SnapThreshold)
    /\ Abs(active.position.z - other.position.z) < Px(SnapThreshold)
    /\ Abs(other.position.y - active.position.y) < Px(ExpectedDist + SnapSlack)

\* the test of checkSnapping for one candidate
SnapMatch(active, other) ==
    /\ other.id # active.id
    /\ Abs(active.position.x - other.position.x) < Px(SnapThreshold)
    /\ Abs(active.position.z - other.position.z) < Px(SnapThreshold)
    /\ other.position.y - active.position.y > 0
    /\ other.position.y - active.position.y < Px(ExpectedDist + SnapSlack)

\* the search of checkSnapping without its break: the last body of the list
\* that passes the test wins
SnapCandidateLast(bodies, a) ==
    IF \E i \in 1 .. Len(bodies) : SnapMatch(bodies[a], bodies[i])
    THEN CHOOSE i \in 1 .. Len(bodies) :
             /\ SnapMatch(bodies[a], bodies[i])
             /\ \A j \in (i + 1) .. Len(bodies) : ~SnapMatch(bodies[a], bodies[j])
    ELSE 0

\* the first body of the list that passes the test, 0 if none
SnapCandidate(bodies, a) ==
    IF \E i \in 1 .. Len(bodies) : SnapMatch(bodies[a], bodies[i])
    THEN CHOOSE i \in 1 .. Len(bodies) :
             /\ SnapMatch(bodies[a], bodies[i])
             /\ \A j \in 1 .. (i - 1) : ~SnapMatch(bodies[a], bodies[j])
    ELSE 0

\* checkSnapping(active), active being bodies[a]
checkSnapping(bodies, a) ==
    LET o == SnapCandidate(bodies, a)
    IN  IF o = 0 THEN bodies
        ELSE LET other == bodies[o]
                 snapped == [bodies[a] EXCEPT
                     !.snapTarget = other.id,
                     !.position = [x |-> other.position.x,
                                   y |-> other.position.y - Px(ExpectedDist),
                                   z |-> other.position.z],
                     !.rotation = other.rotation,
                     !.velocity = ZeroV,
                     !.glow = GlowFull,
                     !.snapTimer = SnapLock]
             IN  [[bodies EXCEPT ![a] = snapped] EXCEPT ![o].glow = GlowHalf]

\* 1. Reset generic interaction glow if not held
ResetGlow(bodies) ==
    [i \in 1 .. Len(bodies) |->
        IF ~bodies[i].isHeld /\ DLess(bodies[i].glow, GlowHalf)
        THEN [bodies[i] EXCEPT !.glow = GlowNone] ELSE bodies[i]]

\* the grab branch: isGrabbing and the hand has no hold record
TryGrab(bodies, held, handId, x, y, z, rotationAngle) ==
    LET t == GrabTarget(bodies, x, y)
    IN  IF t = 0 THEN [rb |-> bodies, held |-> held]
        ELSE [rb |-> [bodies EXCEPT ![t].isHeld = TRUE,
                                    ![t].snapTarget = Null,
                                    ![t].glow = GlowFull],
              held |-> [h \in (DOMAIN held) \cup {handId} |->
                           IF h = handId
                           THEN [bodyId |-> bodies[t].id,
                                 offset |-> [x |-> bodies[t].position.x - x,
                                             y |-> bodies[t].position.y - y,
                                             z |-> bodies[t].position.z - z],
                                 initialHandRot |-> rotationAngle,
                                 initialObjRot |-> bodies[t].rotation]
                           ELSE held[h]]]

\* the holding / dragging branch: isGrabbing and the hand has a hold record
Drag(bodies, held, handId, x, y, z, rotationAngle) ==
    LET hold == held[handId]
        b == FindBody(bodies, hold.bodyId)
    IN  IF b = 0 THEN [rb |-> bodies, held |-> held]
        ELSE LET body == bodies[b]
                 tx == x + hold.offset.x
                 ty == y + hold.offset.y
                 tz == z + hold.offset.z
                 deltaRot == rotationAngle - hold.initialHandRot
                 qY == qFromAxisAngle([x |-> 0, y |-> 1, z |-> 0], deltaRot * 15)
             IN  [rb |-> [bodies EXCEPT ![b] = [body EXCEPT
                            !.glow = GlowFull,
                            !.position = [x |-> body.position.x + MulF(tx - body.position.x, 40),
                                          y |-> body.position.y + MulF(ty - body.position.y, 40),
                                          z |-> body.position.z + MulF(tz - body.position.z, 40)],
                            !.velocity = ZeroV,
                            !.rotation = qMult(body.rotation, qY)]],
                  held |-> [held EXCEPT ![handId].initialHandRot = rotationAngle]]

\* the release branch without the hover check
Release(bodies, held, handId) ==
    IF handId \in DOMAIN held
    THEN LET b == FindBody(bodies, held[handId].bodyId)
         IN  [rb |-> IF b = 0 THEN bodies
                     ELSE checkSnapping([bodies EXCEPT ![b].isHeld = FALSE], b),
              held |-> [h \in (DOMAIN held) \ {handId} |-> held[h]]]
    ELSE [rb |-> bodies, held |-> held]

\* HOVER CHECK: bodies under an open hand light up
Hover(bodies, x, y) ==
    [i \in 1 .. Len(bodies) |->
        IF ScreenDist(bodies[i], x, y) < colliderRadius(bodies[i])
        THEN [bodies[i] EXCEPT !.glow = DMax(bodies[i].glow, GlowHover)]
        ELSE bodies[i]]

\* handleInteraction3D without the test for an existing hold record: every
\* grabbing input scans for the nearest body again
Interaction3DRescan(bodies, held, handId, x, y, z, isGrabbing, rotationAngle) ==
    LET dimmed == ResetGlow(bodies)
    IN  IF isGrabbing
        THEN TryGrab(dimmed, held, handId, x, y, z, rotationAngle)
        ELSE LET r == Release(dimmed, held, handId)
             IN  [rb |-> Hover(r.rb, x, y), held |-> r.held]

\* the body of handleInteraction3D: the new rigidBodies and heldObjects
Interaction3D(bodies, held, handId, x, y, z, isGrabbing, rotationAngle) ==
    LET dimmed == ResetGlow(bodies)
    IN  IF isGrabbing
        THEN IF handId \notin DOMAIN held
             THEN TryGrab(dimmed, held, handId, x, y, z, rotationAngle)
             ELSE Drag(dimmed, held, handId, x, y, z, rotationAngle)
        ELSE LET r == Release(dimmed, held, handId)
             IN  [rb |-> Hover(r.rb, x, y), held |-> r.held]

(* ---------------------------------------------------------------------- *)
(* Rigid bodies: the 3D half of update                                     *)
(* ---------------------------------------------------------------------- *)

\* this.gravity, hundredths per tick
Gravity == 50

\* this.groundFriction, hundredths
GroundFriction == 80

\* cubeHalf: half size of a body, pixels
CubeHalf == 30

\* the tail of the loop body with the drag applied before gravity is added
FreeFallDragFirst(body, height) ==
    LET v0 == vScale(body.velocity, 98)
        v1 == [v0 EXCEPT !.y = v0.y + Gravity]
        p1 == vAdd(body.position, v1)
        hit == p1.y > height - Px(CubeHalf)
        p2 == IF hit THEN [p1 EXCEPT !.y = height - Px(CubeHalf)] ELSE p1
        v2 == IF hit THEN [x |-> MulF(v1.x, GroundFriction),
                           y |-> MulF(v1.y, -40),
                           z |-> MulF(v1.z, GroundFriction)]
              ELSE v1
    IN  [body EXCEPT !.position = p2, !.velocity = v2]

\* the tail of the loop body with a bounce computed from the velocity the
\* body had before gravity was added
FreeFallBounceStale(body, height) ==
    LET vy == body.velocity.y + Gravity
        v1 == [body.velocity EXCEPT !.y = vy]
        p1 == vAdd(body.position, v1)
        hit == p1.y > height - Px(CubeHalf)
        p2 == IF hit THEN [p1 EXCEPT !.y = height - Px(CubeHalf)] ELSE p1
        v2 == IF hit THEN [x |-> MulF(v1.x, GroundFriction),
                           y |-> MulF(body.velocity.y, -40),
                           z |-> MulF(v1.z, GroundFriction)]
              ELSE v1
    IN  [body EXCEPT !.position = p2, !.velocity = vScale(v2, 98)]

\* the tail of the loop body: gravity, velocity, floor collision, drag
FreeFall(body, height) ==
    LET vy == body.velocity.y + Gravity
        v1 == [body.velocity EXCEPT !.y = vy]
        p1 == vAdd(body.position, v1)
        floorY == height
        hit == p1.y > floorY - Px(CubeHalf)
        p2 == IF hit THEN [p1 EXCEPT !.y = floorY - Px(CubeHalf)] ELSE p1
        v2 == IF hit THEN [x |-> MulF(v1.x, GroundFriction),
                           y |-> MulF(v1.y, -40),
                           z |-> MulF(v1.z, GroundFriction)]
              ELSE v1
    IN  [body EXCEPT !.position = p2, !.velocity = vScale(v2, 98)]

\* the loop body with a lock that counts down but does not skip the physics
updateBodyNoLock(bodies, i, height) ==
    LET b0 == bodies[i]
        b1 == IF DLess(GlowNone, b0.glow)
                THEN [b0 EXCEPT !.glow = DSub(b0.glow, GlowDecay)] ELSE b0
        body == IF b1.snapTimer > 0 THEN [b1 EXCEPT !.snapTimer = b1.snapTimer - 1] ELSE b1
    IN  IF body.isHeld THEN [bodies EXCEPT ![i] = b1]
        ELSE IF body.snapTarget # Null /\ FindBody(bodies, body.snapTarget) # 0
        THEN LET target == bodies[FindBody(bodies, body.snapTarget)]
             IN  [bodies EXCEPT ![i] = [body EXCEPT
                     !.position = [x |-> target.position.x,
                                   y |-> target.position.y - Px(ExpectedDist),
                                   z |-> target.position.z],
                     !.rotation = target.rotation]]
        ELSE [bodies EXCEPT ![i] = FreeFall([body EXCEPT !.snapTarget = Null], height)]

\* the loop body with a dangling snap target that is cleared without the
\* body falling in the same call
updateBodyDanglingSkip(bodies, i, height) ==
    LET b0 == bodies[i]
        body == IF DLess(GlowNone, b0.glow)
                THEN [b0 EXCEPT !.glow = DSub(b0.glow, GlowDecay)] ELSE b0
    IN  IF body.isHeld THEN [bodies EXCEPT ![i] = body]
        ELSE IF body.snapTimer > 0
        THEN [bodies EXCEPT ![i] = [body EXCEPT !.snapTimer = body.snapTimer - 1]]
        ELSE IF body.snapTarget # Null /\ FindBody(bodies, body.snapTarget) # 0
        THEN LET target == bodies[FindBody(bodies, body.snapTarget)]
             IN  [bodies EXCEPT ![i] = [body EXCEPT
                     !.position = [x |-> target.position.x,
                                   y |-> target.position.y - Px(ExpectedDist),
                                   z |-> target.position.z],
                     !.rotation = target.rotation]]
        ELSE IF body.snapTarget # Null
        THEN [bodies EXCEPT ![i] = [body EXCEPT !.snapTarget = Null]]
        ELSE [bodies EXCEPT ![i] = FreeFall(body, height)]

\* the loop body with a snap-follow step that does not end the iteration:
\* the follower is placed on its target and then falls
updateBodyFollowFalls(bodies, i, height) ==
    LET b0 == bodies[i]
        body == IF DLess(GlowNone, b0.glow)
                THEN [b0 EXCEPT !.glow = DSub(b0.glow, GlowDecay)] ELSE b0
    IN  IF body.isHeld THEN [bodies EXCEPT ![i] = body]
        ELSE IF body.snapTimer > 0
        THEN [bodies EXCEPT ![i] = [body EXCEPT !.snapTimer = body.snapTimer - 1]]
        ELSE IF body.snapTarget # Null /\ FindBody(bodies, body.snapTarget) # 0
        THEN LET target == bodies[FindBody(bodies, body.snapTarget)]
             IN  [bodies EXCEPT ![i] = FreeFall([body EXCEPT
                     !.position = [x |-> target.position.x,
                                   y |-> target.position.y - Px(ExpectedDist),
                                   z |-> target.position.z],
                     !.rotation = target.rotation], height)]
        ELSE [bodies EXCEPT ![i] = FreeFall([body EXCEPT !.snapTarget = Null], height)]

\* one iteration of `for (const body of this.rigidBodies)': body i of the
\* list as the earlier iterations left it
updateBody(bodies, i, height) ==
    LET b0 == bodies[i]
        body == IF DLess(GlowNone, b0.glow)
                THEN [b0 EXCEPT !.glow = DSub(b0.glow, GlowDecay)] ELSE b0
    IN  IF body.isHeld THEN [bodies EXCEPT ![i] = body]
        ELSE IF body.snapTimer > 0
        THEN [bodies EXCEPT ![i] = [body EXCEPT !.snapTimer = body.snapTimer - 1]]
        ELSE IF body.snapTarget # Null /\ FindBody(bodies, body.snapTarget) # 0
        THEN LET target == bodies[FindBody(bodies, body.snapTarget)]
             IN  [bodies EXCEPT ![i] = [body EXCEPT
                     !.position = [x |-> target.position.x,
                                   y |-> target.position.y - Px(ExpectedDist),
                                   z |-> target.position.z],
                     !.rotation = target.rotation]]
        ELSE [bodies EXCEPT ![i] = FreeFall([body EXCEPT !.snapTarget = Null], height)]

RECURSIVE updateBodies(_, _, _)
\* the loop over the rigid bodies from body i on
updateBodies(bodies, i, height) ==
    IF i > Len(bodies) THEN bodies
    ELSE updateBodies(updateBody(bodies, i, height), i + 1, height)

(* ---------------------------------------------------------------------- *)
(* Soft bodies                                                             *)
(* ---------------------------------------------------------------------- *)

\* a coordinate that is NaN (0 * Infinity, or any arithmetic on a NaN)
NaN == -2000000001

IsNaN(p) == p.x = NaN

\* this.drag, hundredths
Drag2D == 95

\* this.solverIterations
SolverIterations == 16

\* this.stiffness, hundredths
Stiffness == 100

\* this.breakingThreshold
BreakingThreshold == 10

\* margin of the world bounds, pixels
WallMargin == 10

\* the extreme upper clamp, pixels
Ceiling == -300

\* capture radius of a pinch, pixels
CaptureRadius == 80

RECURSIVE MulDiv(_, _, _)
\* a * b / c truncated, c > 0; factors too large to be multiplied are halved
MulDiv(a, b, c) ==
    IF Abs(a) <= 46000 /\ Abs(b) <= 46000
    THEN Div(a * b, c)
    ELSE MulDiv(Div(a, 2), Div(b, 2), Max2(1, Div(c, 4)))

\* the integration step of update for one point
IntegratePoint(p, width, height) ==
    IF p.isPinned THEN p
    ELSE IF IsNaN(p) THEN [p EXCEPT !.oldX = NaN, !.oldY = NaN]
    ELSE LET vx == MulF(p.x - p.oldX, Drag2D)
             vy == MulF(p.y - p.oldY, Drag2D)
             x1 == p.x + vx
             y1 == p.y + vy + Gravity
             floorHit == y1 > height - Px(WallMargin)
             y2 == IF floorHit THEN height - Px(WallMargin) ELSE y1
             oy2 == IF floorHit THEN y2 + MulF(vy, GroundFriction) ELSE p.y
             leftHit == x1 < Px(WallMargin)
             x2 == IF leftHit THEN Px(WallMargin) ELSE x1
             ox2 == IF leftHit THEN x2 + MulF(vx, GroundFriction) ELSE p.x
             rightHit == x2 > width - Px(WallMargin)
             x3 == IF rightHit THEN width - Px(WallMargin) ELSE x2
             ox3 == IF rightHit THEN x3 + MulF(vx, GroundFriction) ELSE ox2
             y3 == IF y2 < Px(Ceiling) THEN Px(Ceiling) ELSE y2
         IN  [p EXCEPT !.x = x3, !.y = y3, !.oldX = ox3, !.oldY = oy2]

\* a visit of the relaxation loop without the breaking test: every stick is
\* corrected, however far its endpoints are apart
StickVisitNoBreak(obj, sIdx) ==
    LET s == obj.sticks[sIdx]
        p0 == obj.points[s.p0]
        p1 == obj.points[s.p1]
        finite == ~IsNaN(p0) /\ ~IsNaN(p1)
        dx == p1.x - p0.x
        dy == p1.y - p0.y
        dist == Hypot(dx, dy)
        diff == s.length - dist
        offX == MulF(MulDiv(dx, diff, 2 * dist), Stiffness)
        offY == MulF(MulDiv(dy, diff, 2 * dist), Stiffness)
        new0 == IF p0.isPinned THEN p0
                ELSE IF ~finite \/ dist = 0 THEN [p0 EXCEPT !.x = NaN, !.y = NaN]
                ELSE [p0 EXCEPT !.x = p0.x - offX, !.y = p0.y - offY]
        new1 == IF p1.isPinned THEN p1
                ELSE IF ~finite \/ dist = 0 THEN [p1 EXCEPT !.x = NaN, !.y = NaN]
                ELSE [p1 EXCEPT !.x = p1.x + offX, !.y = p1.y + offY]
    IN  [obj EXCEPT !.points = [[obj.points EXCEPT ![s.p0] = new0]
                                   EXCEPT ![s.p1] = IF s.p1 = s.p0 THEN new0 ELSE new1]]

\* what one visit of the relaxation loop does to obj for the stick at sIdx
StickVisit(obj, sIdx) ==
    LET s == obj.sticks[sIdx]
        p0 == obj.points[s.p0]
        p1 == obj.points[s.p1]
        finite == ~IsNaN(p0) /\ ~IsNaN(p1)
        dx == p1.x - p0.x
        dy == p1.y - p0.y
        dist == Hypot(dx, dy)
        diff == s.length - dist
        \* percent = (diff / dist) / 2 * stiffness, off = d * percent
        offX == MulF(MulDiv(dx, diff, 2 * dist), Stiffness)
        offY == MulF(MulDiv(dy, diff, 2 * dist), Stiffness)
        nan0 == [p0 EXCEPT !.x = NaN, !.y = NaN]
        nan1 == [p1 EXCEPT !.x = NaN, !.y = NaN]
        new0 == IF p0.isPinned THEN p0
                ELSE IF ~finite \/ dist = 0 THEN nan0
                ELSE [p0 EXCEPT !.x = p0.x - offX, !.y = p0.y - offY]
        new1 == IF p1.isPinned THEN p1
                ELSE IF ~finite \/ dist = 0 THEN nan1
                ELSE [p1 EXCEPT !.x = p1.x + offX, !.y = p1.y + offY]
    IN  IF finite /\ dist > s.length * BreakingThreshold
        THEN [obj EXCEPT !.sticks = [k \in 1 .. (Len(obj.sticks) - 1) |->
                                        IF k < sIdx THEN obj.sticks[k] ELSE obj.sticks[k + 1]]]
        ELSE [obj EXCEPT !.points = [[obj.points EXCEPT ![s.p0] = new0]
                                        EXCEPT ![s.p1] = IF s.p1 = s.p0 THEN new0 ELSE new1]]

RECURSIVE RelaxPassSkipAfterSplice(_, _)
\* a relaxation pass whose index moves on by two after a removal, so that the
\* stick before a removed one is not visited in that pass
RelaxPassSkipAfterSplice(obj, sIdx) ==
    IF sIdx <= 0 \/ sIdx > Len(obj.sticks) THEN obj
    ELSE LET visited == StickVisit(obj, sIdx)
         IN  RelaxPassSkipAfterSplice(visited,
                 IF Len(visited.sticks) < Len(obj.sticks) THEN sIdx - 2 ELSE sIdx - 1)

RECURSIVE RelaxPass(_, _)
\* for (let sIdx = obj.sticks.length - 1; sIdx >= 0; sIdx--), 1-based
RelaxPass(obj, sIdx) ==
    IF sIdx = 0 \/ sIdx > Len(obj.sticks) THEN obj
    ELSE RelaxPass(StickVisit(obj, sIdx), sIdx - 1)

RECURSIVE Relax(_, _)
\* the remaining i passes of constraint relaxation
Relax(obj, i) ==
    IF i = 0 THEN obj ELSE Relax(RelaxPass(obj, Len(obj.sticks)), i - 1)

\* one iteration of `for (const obj of this.objects)'
updateObject(obj, width, height) ==
    IF obj.type = "devil_horn" THEN obj
    ELSE Relax([obj EXCEPT !.points =
                   [k \in 1 .. Len(obj.points) |->
                       IntegratePoint(obj.points[k], width, height)]],
               SolverIterations)

\* the pull of one interaction spring on its point
SpringPull(objs, spring) ==
    LET point == objs[spring.obj].points[spring.pt]
    IN  IF IsNaN(point) THEN objs
        ELSE [objs EXCEPT ![spring.obj].points[spring.pt] = [point EXCEPT
                 !.x = point.x + MulF(spring.anchorX - point.x, 20),
                 !.y = point.y + MulF(spring.anchorY - point.y, 20)]]

RECURSIVE SpringPulls(_, _, _)
\* this.mouseSprings.forEach, in insertion order, from entry k on
SpringPulls(objs, springs, k) ==
    IF k > Len(springs) THEN objs
    ELSE SpringPulls(SpringPull(objs, springs[k]), springs, k + 1)

\* the 2D half of update
updateObjects(objs, springs, width, height) ==
    SpringPulls([o \in 1 .. Len(objs) |-> updateObject(objs[o], width, height)],
                springs, 1)

(* ---------------------------------------------------------------------- *)
(* Soft bodies: spawner                                                    *)
(* ---------------------------------------------------------------------- *)

\* cols and rows of the castle wall grid (the program builds 3 x 3 cells)
CastleCols == 1

CastleRows == 1

\* w, h: width and height of the castle wall, pixels
CastleSize == 100

\* height of a battlement above the top row, pixels
BattlementHeight == 20

NewPoint(x, y, pinned) ==
    [x |-> x, y |-> y, oldX |-> x, oldY |-> y, isPinned |-> pinned]

\* getP(x, y) as a 1-based index into points
getP(x, y) == y * (CastleCols + 1) + x + 1

\* the sticks pushed for grid cell (x, y), in the order of the loop body
CellSticks(x, y, stepX, stepY) ==
    (IF x < CastleCols
     THEN <<[p0 |-> getP(x, y), p1 |-> getP(x + 1, y), length |-> stepX]>> ELSE <<>>)
    \o (IF y < CastleRows
        THEN <<[p0 |-> getP(x, y), p1 |-> getP(x, y + 1), length |-> stepY]>> ELSE <<>>)
    \o (IF x < CastleCols /\ y < CastleRows
        THEN <<[p0 |-> getP(x, y), p1 |-> getP(x + 1, y + 1), length |-> Hypot(stepX, stepY)],
               [p0 |-> getP(x + 1, y), p1 |-> getP(x, y + 1), length |-> Hypot(stepX, stepY)]>>
        ELSE <<>>)

RECURSIVE GridSticks(_, _, _)
\* the sticks of the grid cells from cell number c on, row by row
GridSticks(c, stepX, stepY) ==
    IF c >= (CastleRows + 1) * (CastleCols + 1) THEN <<>>
    ELSE CellSticks(c % (CastleCols + 1), c \div (CastleCols + 1), stepX, stepY)
         \o GridSticks(c + 1, stepX, stepY)

\* the object pushed by spawnCastle(cx, cy) at clock value ms
NewCastle(cx, cy, ms) ==
    LET w == Px(CastleSize)
        h == Px(CastleSize)
        stepX == Div(w, CastleCols)
        stepY == Div(h, CastleRows)
        nGrid == (CastleRows + 1) * (CastleCols + 1)
        gx(i) == cx - Div(w, 2) + ((i - 1) % (CastleCols + 1)) * stepX
        gy(i) == cy - h + ((i - 1) \div (CastleCols + 1)) * stepY
        grid == [i \in 1 .. nGrid |->
                    NewPoint(gx(i), gy(i), (i - 1) \div (CastleCols + 1) = CastleRows)]
        bats == [x \in 1 .. (CastleCols + 1) |->
                    NewPoint(grid[x].x, grid[x].y - Px(BattlementHeight), FALSE)]
        batSticks == [x \in 1 .. (CastleCols + 1) |->
                         [p0 |-> x, p1 |-> nGrid + x, length |-> Px(BattlementHeight)]]
    IN  [id |-> <<"castle", ms>>, type |-> "castle",
         points |-> grid \o bats,
         sticks |-> GridSticks(0, stepX, stepY) \o batSticks]

(* ---------------------------------------------------------------------- *)
(* Soft bodies: horns                                                      *)
(* ---------------------------------------------------------------------- *)

leftHornId == <<"devil-horn-left">>

rightHornId == <<"devil-horn-right">>

\* the object literal updateHorns pushes for a horn that does not exist yet
\* (color, and the angle and scale of config, are read by draw only)
NewHorn(id, side) ==
    [id |-> id, type |-> "devil_horn", points |-> <<>>, sticks |-> <<>>,
     growth |-> 0, side |-> side]

\* this.objects.find(o => o.id === id): index of the first match, 0 for undefined
FindObject(objs, id) ==
    IF \E o \in 1 .. Len(objs) : objs[o].id = id
    THEN CHOOSE o \in 1 .. Len(objs) :
             /\ objs[o].id = id
             /\ \A j \in 1 .. (o - 1) : objs[j].id # id
    ELSE 0

\* getPt(idx) for a face landmark l with l.x, l.y in hundredths of the frame
getPt(l, canvasWidth, canvasHeight) ==
    [x |-> MulF(canvasWidth, 100 - l.x), y |-> MulF(canvasHeight, l.y)]

\* the body of updateHorns; face = [left |-> landmark 105, right |-> landmark 334]
UpdateHorns(objs, face, isGestureActive, canvasWidth, canvasHeight) ==
    LET o1 == IF FindObject(objs, leftHornId) = 0
              THEN Append(objs, NewHorn(leftHornId, "left")) ELSE objs
        o2 == IF FindObject(o1, rightHornId) = 0
              THEN Append(o1, NewHorn(rightHornId, "right")) ELSE o1
        l == FindObject(o2, leftHornId)
        r == FindObject(o2, rightHornId)
        foreheadLeft == getPt(face.left, canvasWidth, canvasHeight)
        foreheadRight == getPt(face.right, canvasWidth, canvasHeight)
    IN  IF ~isGestureActive
        THEN [[o2 EXCEPT ![l].growth = 0] EXCEPT ![r].growth = 0]
        ELSE [[o2 EXCEPT ![l].growth = 100,
                         ![l].points = <<NewPoint(foreheadRight.x, foreheadRight.y, TRUE)>>]
                  EXCEPT ![r].growth = 100,
                         ![r].points = <<NewPoint(foreheadLeft.x, foreheadLeft.y, TRUE)>>]

(* ---------------------------------------------------------------------- *)
(* Soft bodies: interaction                                                *)
(* ---------------------------------------------------------------------- *)

\* Map.has / Map.get on mouseSprings, a sequence of entries in insertion order
SpringIndex(springs, handId) ==
    IF \E k \in 1 .. Len(springs) : springs[k].hand = handId
    THEN CHOOSE k \in 1 .. Len(springs) : springs[k].hand = handId
    ELSE 0

\* Map.delete
SpringDelete(springs, handId) ==
    SelectSeq(springs, LAMBDA e : e.hand # handId)

RECURSIVE PointScanAll(_, _, _, _, _, _, _)
\* the point scan without the test of the object type: the points of every
\* object are candidates
PointScanAll(objs, o, k, x, y, minDist, candidate) ==
    IF o > Len(objs) THEN candidate
    ELSE IF k > Len(objs[o].points)
    THEN PointScanAll(objs, o + 1, 1, x, y, minDist, candidate)
    ELSE LET p == objs[o].points[k]
             dist == Hypot(p.x - x, p.y - y)
         IN  IF ~IsNaN(p) /\ dist < minDist
             THEN PointScanAll(objs, o, k + 1, x, y, dist, <<o, k>>)
             ELSE PointScanAll(objs, o, k + 1, x, y, minDist, candidate)

RECURSIVE PointScanFirst(_, _, _, _, _, _, _)
\* the point scan that keeps the first point it finds within the capture
\* radius
PointScanFirst(objs, o, k, x, y, minDist, candidate) ==
    IF o > Len(objs) THEN candidate
    ELSE IF objs[o].type = "devil_horn" \/ k > Len(objs[o].points)
    THEN PointScanFirst(objs, o + 1, 1, x, y, minDist, candidate)
    ELSE LET p == objs[o].points[k]
             dist == Hypot(p.x - x, p.y - y)
         IN  IF ~IsNaN(p) /\ dist < minDist /\ candidate = Null
             THEN PointScanFirst(objs, o, k + 1, x, y, minDist, <<o, k>>)
             ELSE PointScanFirst(objs, o, k + 1, x, y, minDist, candidate)

RECURSIVE PointScan(_, _, _, _, _, _, _)
\* the two nested for-loops of handleInteraction from point k of object o on;
\* candidate is <<object, point>> or Null
PointScan(objs, o, k, x, y, minDist, candidate) ==
    IF o > Len(objs) THEN candidate
    ELSE IF objs[o].type = "devil_horn" \/ k > Len(objs[o].points)
    THEN PointScan(objs, o + 1, 1, x, y, minDist, candidate)
    ELSE LET p == objs[o].points[k]
             dist == Hypot(p.x - x, p.y - y)
         IN  IF ~IsNaN(p) /\ dist < minDist
             THEN PointScan(objs, o, k + 1, x, y, dist, <<o, k>>)
             ELSE PointScan(objs, o, k + 1, x, y, minDist, candidate)

PinchCandidate(objs, x, y) == PointScan(objs, 1, 1, x, y, Px(CaptureRadius), Null)

\* the body of handleInteraction: the new mouseSprings
Interaction2D(objs, springs, handId, x, y, isPinching) ==
    IF isPinching
    THEN LET c == IF SpringIndex(springs, handId) = 0
                  THEN PinchCandidate(objs, x, y) ELSE Null
             s1 == IF c # Null
                   THEN Append(springs, [hand |-> handId, obj |-> c[1], pt |-> c[2],
                                         anchorX |-> x, anchorY |-> y])
                   ELSE springs
             k == SpringIndex(s1, handId)
         IN  IF k = 0 THEN s1
             ELSE [s1 EXCEPT ![k].anchorX = x, ![k].anchorY = y]
    ELSE SpringDelete(springs, handId)

\* what crumple does to one point; j = <<jx, jy>> are the two values of
\* Math.random() - 0.5 in hundredths; radius in fixed point, intensity in hundredths
CrumplePoint(p, x, y, radius, intensity, j) ==
    IF IsNaN(p) THEN p
    ELSE LET dx == p.x - x
             dy == p.y - y
             dist == Hypot(dx, dy)
             force == MulF(100 - Div(dist * 100, radius), intensity)
         IN  IF dist < radius
             THEN [p EXCEPT !.x = p.x + Div(j[1] * 25 * force, 100) - MulF(MulF(dx, 10), force),
                            !.y = p.y + Div(j[2] * 25 * force, 100) - MulF(MulF(dy, 10), force)]
             ELSE p

\* the body of crumple; rnd[(k % 2) + 1] are the random values drawn for point k
Crumple(objs, x, y, radius, intensity, rnd) ==
    [o \in 1 .. Len(objs) |->
        IF objs[o].type = "devil_horn" THEN objs[o]
        ELSE [objs[o] EXCEPT !.points =
                 [k \in 1 .. Len(objs[o].points) |->
                     CrumplePoint(objs[o].points[k], x, y, radius, intensity, rnd[(k % 2) + 1])]]]

\* what fold does to one point
FoldPoint(p, x, y, radius, velocity) ==
    IF IsNaN(p) THEN p
    ELSE LET dx == p.x - x
             dy == p.y - y
             dist == Hypot(dx, dy)
             force == 100 - Div(dist * 100, radius)
         IN  IF dist < radius
             THEN [p EXCEPT !.x = p.x - MulF(MulF(dx, 15), force) + MulF(MulF(velocity.x, 10), force),
                            !.y = p.y - MulF(MulF(dy, 15), force) + MulF(MulF(velocity.y, 10), force)]
             ELSE p

\* the body of fold
Fold(objs, x, y, radius, velocity) ==
    [o \in 1 .. Len(objs) |->
        IF objs[o].type = "devil_horn" THEN objs[o]
        ELSE [objs[o] EXCEPT !.points =
                 [k \in 1 .. Len(objs[o].points) |->
                     FoldPoint(objs[o].points[k], x, y, radius, velocity)]]]

(* ---------------------------------------------------------------------- *)
(* The host: key handlers and predictWebcam                                *)
(* ---------------------------------------------------------------------- *)

\* this.time += 0.05, hundredths
TimeStep == 5

\* radius and intensity predictWebcam passes to crumple (pixels, hundredths)
CrumpleRadius == 180

CrumpleIntensity == 150

\* radius predictWebcam passes to fold, pixels
FoldRadius == 220

\* cx, cy of handleKeyDown: the centre of the canvas
CanvasCx == Div(Px(Width), 2)

CanvasCy == Div(Px(Height), 2)

\* spawnCube3D(cx, cy - 200), spawnPyramid3D(cx, cy - 200)
SpawnPt == [x |-> CanvasCx, y |-> CanvasCy - Px(200)]

\* spawnCastle(cx, cy + 150)
CastlePt == [x |-> CanvasCx, y |-> CanvasCy + Px(150)]

\* a castle placed with its wall and battlements below the floor
SunkCastlePt == [x |-> CanvasCx, y |-> Px(Height) + Px(120)]

\* what predictWebcam distinguishes in a hand, as far as SoftBodySystem is
\* concerned (MIDDLE_FINGER and VICTORY act like GENERIC)
Gestures == {"PINCH", "FIST", "OPEN_PALM", "GENERIC"}

\* palm position (cx, cy, cz) and wrist twist (hundredths of a radian) of a
\* hand over the place rigid bodies are spawned at, and of a twisted hand
\* 20 pixels above it
GrabHands == {[x |-> SpawnPt.x, y |-> SpawnPt.y, z |-> 0, rot |-> 0],
              [x |-> SpawnPt.x, y |-> SpawnPt.y - Px(20), z |-> 0, rot |-> 100]}

\* palm positions of a hand over the place rigid bodies are spawned at, one
\* stack unit above it, and 200 pixels to the right of that
StackHands == {[x |-> SpawnPt.x, y |-> SpawnPt.y, z |-> 0, rot |-> 0],
               [x |-> SpawnPt.x, y |-> SpawnPt.y - Px(ExpectedDist), z |-> 0, rot |-> 0],
               [x |-> SpawnPt.x + Px(200), y |-> SpawnPt.y - Px(ExpectedDist), z |-> 0, rot |-> 0]}

\* palm positions of a hand at the top of the canvas over the spawn place,
\* and below the spawn place just within reach of a body that has begun to
\* fall
CycleHands == {[x |-> SpawnPt.x, y |-> 0, z |-> 0, rot |-> 0],
               [x |-> SpawnPt.x, y |-> SpawnPt.y + Px(55), z |-> 0, rot |-> 0]}

\* palm position of a hand over the castle wall
WallHands == {[x |-> CanvasCx - Px(20), y |-> CanvasCy + Px(100), z |-> 0, rot |-> 0]}

\* pinch positions (midpoint of thumb tip and index tip): below the pinned
\* left corner of the wall, above its left battlement, the top right corner
\* of the canvas
PinchPts == {[x |-> CanvasCx - Px(50), y |-> CanvasCy + Px(170)],
             [x |-> CanvasCx - Px(50), y |-> CanvasCy + Px(20)],
             [x |-> Px(Width), y |-> 0]}

\* a pinch position with no point of the castle within the capture radius:
\* the top right corner of the canvas
FarPinchPts == {[x |-> Px(Width), y |-> 0]}

\* the pinch position of the specification with both kinds of bodies
BothPinchPts == {[x |-> CanvasCx - Px(50), y |-> CanvasCy + Px(20)]}

\* values of Math.random() - 0.5 (hundredths) drawn by one crumple call:
\* rnd[1] = <<for x, for y>> for the even points, rnd[2] for the odd points
RandomDraws == {<< <<-50, 0>>, <<49, 49>> >>}

\* palm velocities passed to fold
Velocities == {[x |-> Px(30), y |-> 0]}

\* face landmarks 105 and 334 (hundredths of the frame): the forehead over
\* the left battlement of the castle and over its right battlement
Faces == {[left |-> [x |-> 55, y |-> 50], right |-> [x |-> 45, y |-> 50]]}

\* pinch positions on the two forehead points of Faces
HornPinchPts == {[x |-> MulF(Px(Width), 45), y |-> MulF(Px(Height), 50)],
                 [x |-> MulF(Px(Width), 55), y |-> MulF(Px(Height), 50)]}

\* milliseconds between two readings of Date.now() by the spawners
ClockSteps == {1}

\* milliseconds between two readings of Date.now() by the spawners when two
\* key events may be handled within the same millisecond
KeyClockSteps == {0, 1}

\* cur when no hand is being processed
NoHand == [gesture |-> "NONE", x |-> 0, y |-> 0]

\* between two animation frames
Idle == stage = "interact3D" /\ turn = 0

Init ==
    /\ rigidBodies = <<>>
    /\ heldObjects = <<>>
    /\ objects = <<>>
    /\ mouseSprings = <<>>
    /\ time = 0
    /\ now = 0
    /\ turn = 0
    /\ stage = "interact3D"
    /\ cur = NoHand
    /\ grabbed = [h \in Actors |-> "no"]
    /\ freed = {}

\* key '4'; dt: milliseconds since the clock was last read
spawnCube3D(x, y, dt) ==
    /\ Idle
    /\ Len(rigidBodies) < MaxBodies
    /\ now + dt <= MaxSpawns
    /\ rigidBodies' = Append(rigidBodies, NewBody("cube", "cube", x, y, now + dt))
    /\ now' = now + dt
    /\ UNCHANGED <<heldObjects, objects, mouseSprings, time, turn, stage, cur, grabbed, freed>>

\* key '5'
spawnPyramid3D(x, y, dt) ==
    /\ Idle
    /\ Len(rigidBodies) < MaxBodies
    /\ now + dt <= MaxSpawns
    /\ rigidBodies' = Append(rigidBodies, NewBody("pyr", "pyramid", x, y, now + dt))
    /\ now' = now + dt
    /\ UNCHANGED <<heldObjects, objects, mouseSprings, time, turn, stage, cur, grabbed, freed>>

\* key '3'
spawnCastle(cx, cy, dt) ==
    /\ Idle
    /\ Len(objects) < MaxObjects
    /\ now + dt <= MaxSpawns
    /\ objects' = Append(objects, NewCastle(cx, cy, now + dt))
    /\ now' = now + dt
    /\ UNCHANGED <<rigidBodies, heldObjects, mouseSprings, time, turn, stage, cur, grabbed, freed>>

\* a reset that leaves the two maps as they are
resetKeepMaps ==
    /\ Idle
    /\ Len(rigidBodies) + Len(objects) > 0
    /\ rigidBodies' = <<>>
    /\ objects' = <<>>
    /\ grabbed' = [h \in Actors |-> "no"]
    /\ freed' = {}
    /\ UNCHANGED <<mouseSprings, heldObjects, time, now, turn, stage, cur>>

\* key 'c'
reset ==
    /\ Idle
    /\ Len(rigidBodies) + Len(objects) > 0
    /\ rigidBodies' = <<>>
    /\ objects' = <<>>
    /\ mouseSprings' = <<>>
    /\ heldObjects' = <<>>
    /\ grabbed' = [h \in Actors |-> "no"]
    /\ freed' = {}
    /\ UNCHANGED <<time, now, turn, stage, cur>>

\* the hand after hand `turn' of hands.forEach
NextHand ==
    /\ turn' = turn + 1
    /\ stage' = "interact3D"
    /\ cur' = NoHand

\* the ids of the bodies a call of handleInteraction3D releases without
\* checkSnapping finding a body to stack them on
FreedBy(handId, isGrabbing) ==
    IF isGrabbing \/ handId \notin DOMAIN heldObjects THEN {}
    ELSE LET dimmed == ResetGlow(rigidBodies)
             b == FindBody(dimmed, heldObjects[handId].bodyId)
         IN  IF b = 0 THEN {}
             ELSE IF SnapCandidate([dimmed EXCEPT ![b].isHeld = FALSE], b) = 0
             THEN {dimmed[b].id} ELSE {}

\* handleInteraction3D with a release that lets go of everything the actor
\* has, the soft-body spring included
handleInteraction3DSharedRelease(handId, x, y, z, gesture, rotationAngle) ==
    /\ stage = "interact3D"
    /\ turn = handId
    /\ LET r == Interaction3D(rigidBodies, heldObjects, handId, x, y, z,
                              gesture = "PINCH", rotationAngle)
       IN  /\ rigidBodies' = r.rb
           /\ heldObjects' = r.held
           /\ grabbed' = [grabbed EXCEPT ![handId] =
                             IF handId \notin DOMAIN r.held THEN "no"
                             ELSE IF handId \notin DOMAIN heldObjects THEN "now"
                             ELSE @]
           /\ freed' = freed \cup FreedBy(handId, gesture = "PINCH")
    /\ mouseSprings' = IF gesture = "PINCH" THEN mouseSprings
                       ELSE SpringDelete(mouseSprings, handId)
    /\ stage' = IF gesture = "FIST" THEN "crumple" ELSE "interact"
    /\ cur' = [gesture |-> gesture,
               x |-> IF gesture \in {"FIST", "OPEN_PALM"} THEN x ELSE 0,
               y |-> IF gesture \in {"FIST", "OPEN_PALM"} THEN y ELSE 0]
    /\ UNCHANGED <<objects, time, now, turn>>

\* sb.handleInteraction3D(handIndex, cx, cy, cz, handGesture === 'PINCH', rotation)
handleInteraction3D(handId, x, y, z, gesture, rotationAngle) ==
    /\ stage = "interact3D"
    /\ turn = handId
    /\ LET r == Interaction3D(rigidBodies, heldObjects, handId, x, y, z,
                              gesture = "PINCH", rotationAngle)
       IN  /\ rigidBodies' = r.rb
           /\ heldObjects' = r.held
           /\ grabbed' = [grabbed EXCEPT ![handId] =
                             IF handId \notin DOMAIN r.held THEN "no"
                             ELSE IF handId \notin DOMAIN heldObjects THEN "now"
                             ELSE @]
           /\ freed' = freed \cup FreedBy(handId, gesture = "PINCH")
    /\ stage' = IF gesture = "FIST" THEN "crumple" ELSE "interact"
    /\ cur' = [gesture |-> gesture,
               x |-> IF gesture \in {"FIST", "OPEN_PALM"} THEN x ELSE 0,
               y |-> IF gesture \in {"FIST", "OPEN_PALM"} THEN y ELSE 0]
    /\ UNCHANGED <<objects, mouseSprings, time, now, turn>>

\* if (handGesture === 'FIST') sb.crumple(cx, cy, 180, 1.5)
crumple(rnd) ==
    /\ stage = "crumple"
    /\ objects' = Crumple(objects, cur.x, cur.y, Px(CrumpleRadius), CrumpleIntensity, rnd)
    /\ stage' = "interact"
    /\ UNCHANGED <<rigidBodies, heldObjects, mouseSprings, time, now, turn, cur, grabbed, freed>>

\* sb.handleInteraction(handIndex, pinchX, pinchY, true) on a pinch,
\* sb.handleInteraction(handIndex, 0, 0, false) otherwise
handleInteraction(handId, x, y, isPinching) ==
    /\ stage = "interact"
    /\ turn = handId
    /\ isPinching = (cur.gesture = "PINCH")
    /\ mouseSprings' = Interaction2D(objects, mouseSprings, handId, x, y, isPinching)
    /\ IF cur.gesture = "OPEN_PALM"
       THEN stage' = "fold" /\ UNCHANGED <<turn, cur>>
       ELSE NextHand
    /\ UNCHANGED <<rigidBodies, heldObjects, objects, time, now, grabbed, freed>>

\* if (handGesture === 'OPEN_PALM') sb.fold(cx, cy, 220, velocity)
fold(velocity) ==
    /\ stage = "fold"
    /\ objects' = Fold(objects, cur.x, cur.y, Px(FoldRadius), velocity)
    /\ NextHand
    /\ UNCHANGED <<rigidBodies, heldObjects, mouseSprings, time, now, grabbed, freed>>

\* sb.updateHorns(face, isHornsActive, canvas.width, canvas.height), after
\* the last hand of the frame and before update; turn = NumActors + 1 from
\* then on
updateHorns(face, isGestureActive, canvasWidth, canvasHeight) ==
    /\ stage = "interact3D"
    /\ turn <= NumActors
    /\ objects' = UpdateHorns(objects, face, isGestureActive, canvasWidth, canvasHeight)
    /\ turn' = NumActors + 1
    /\ UNCHANGED <<rigidBodies, heldObjects, mouseSprings, time, now, stage, cur,
                   grabbed, freed>>

\* sb.update(canvas.width, canvas.height), after the last hand of the frame
update(width, height) ==
    /\ stage = "interact3D"
    /\ time' = time + TimeStep
    /\ objects' = updateObjects(objects, mouseSprings, width, height)
    /\ rigidBodies' = updateBodies(rigidBodies, 1, height)
    /\ turn' = 0
    /\ grabbed' = [h \in Actors |-> IF grabbed[h] = "now" THEN "last"
                                     ELSE IF grabbed[h] = "last" THEN "old"
                                     ELSE grabbed[h]]
    /\ freed' = {}
    /\ UNCHANGED <<heldObjects, mouseSprings, now, stage, cur>>

\* the soft-body call of predictWebcam for the hand that was just processed
PinchInput(pts) ==
    \E h \in Actors :
        \/ \E p \in pts : handleInteraction(h, p.x, p.y, TRUE)
        \/ handleInteraction(h, 0, 0, FALSE)

(* ---------------------------------------------------------------------- *)
(* Specifications                                                          *)
(* ---------------------------------------------------------------------- *)

\* Rigid bodies only: cubes are spawned, hands pinch or open over them; only
\* the first hand moves and twists.
NextRigid ==
    \/ \E dt \in ClockSteps : spawnCube3D(SpawnPt.x, SpawnPt.y, dt)
    \/ \E h \in Actors, p \in GrabHands, g \in {"PINCH", "GENERIC"} :
           /\ h > 0 => p.rot = 0
           /\ handleInteraction3D(h, p.x, p.y, p.z, g, p.rot)
    \/ PinchInput(PinchPts)
    \/ time < MaxTime * TimeStep /\ update(Px(Width), Px(Height))

SpecRigid == Init /\ [][NextRigid]_vars

\* Soft bodies only: a castle is spawned at c before the first frame, one
\* hand pinches, crumples and folds it.
NextSoft(c) ==
    \/ \E dt \in ClockSteps : time = 0 /\ spawnCastle(c.x, c.y, dt)
    \/ \E p \in WallHands, g \in Gestures :
           handleInteraction3D(0, p.x, p.y, p.z, g, p.rot)
    \/ \E rnd \in RandomDraws : crumple(rnd)
    \/ PinchInput(PinchPts)
    \/ \E v \in Velocities : fold(v)
    \/ time < MaxTime * TimeStep /\ update(Px(Width), Px(Height))

\* the castle where key '3' puts it
SpecSoft == Init /\ [][NextSoft(CastlePt)]_vars

\* the castle below the floor, where the floor clamp makes points coincide
SpecSunk == Init /\ [][NextSoft(SunkCastlePt)]_vars

\* Both: cubes and a castle spawned before the first frame, two hands that
\* pinch or open, reset.
Next ==
    \/ \E dt \in ClockSteps :
           Len(rigidBodies) < MaxBodiesBoth /\ spawnCube3D(SpawnPt.x, SpawnPt.y, dt)
    \/ \E dt \in ClockSteps : time = 0 /\ spawnCastle(CastlePt.x, CastlePt.y, dt)
    \/ reset
    \/ \E h \in Actors, g \in {"PINCH", "GENERIC"} :
           handleInteraction3D(h, SpawnPt.x, SpawnPt.y, 0, g, 0)
    \/ PinchInput(BothPinchPts)
    \/ time < MaxTimeBoth * TimeStep /\ update(Px(Width), Px(Height))

Spec == Init /\ [][Next]_vars

\* the inputs of one hand that pinches or opens over the spawn place, one
\* stack unit above it and away from it, and whose pinch is out of reach of
\* any soft body
StackInput ==
    \/ \E p \in StackHands, g \in {"PINCH", "GENERIC"} :
           handleInteraction3D(0, p.x, p.y, p.z, g, p.rot)
    \/ PinchInput(FarPinchPts)

\* cubes spawned before the first frame
SpawnCubes ==
    \E dt \in ClockSteps :
        /\ time = 0
        /\ Len(rigidBodies) < MaxBodiesBoth
        /\ spawnCube3D(SpawnPt.x, SpawnPt.y, dt)

\* Stacking: cubes spawned between the frames, one hand that builds a stack
\* and takes it apart again.
NextStack ==
    \/ \E dt \in ClockSteps :
           Len(rigidBodies) < MaxBodiesBoth /\ spawnCube3D(SpawnPt.x, SpawnPt.y, dt)
    \/ StackInput
    \/ time < MaxTimeStack * TimeStep /\ update(Px(Width), Px(Height))

SpecStack == Init /\ [][NextStack]_vars

\* Missing: cubes and a castle spawned before the first frame, one hand
\* whose inputs may be out of reach of all of them.
NextMiss ==
    \/ SpawnCubes
    \/ \E dt \in ClockSteps : time = 0 /\ spawnCastle(CastlePt.x, CastlePt.y, dt)
    \/ StackInput
    \/ time < MaxTime * TimeStep /\ update(Px(Width), Px(Height))

SpecMiss == Init /\ [][NextMiss]_vars

\* Both kinds of bodies and the horns: one cube at a time, a castle spawned
\* before the first frame, reset, one hand that pinches or opens, and a face
\* whose forehead is next to the pinch position.
NextRefs ==
    \/ \E dt \in ClockSteps :
           rigidBodies = <<>> /\ spawnCube3D(SpawnPt.x, SpawnPt.y, dt)
    \/ \E dt \in ClockSteps : time = 0 /\ spawnCastle(CastlePt.x, CastlePt.y, dt)
    \/ reset
    \/ \E g \in {"PINCH", "GENERIC"} :
           handleInteraction3D(0, SpawnPt.x, SpawnPt.y, 0, g, 0)
    \/ PinchInput(BothPinchPts)
    \/ \E face \in Faces, isHornsActive \in BOOLEAN :
           objects # <<>> /\ updateHorns(face, isHornsActive, Px(Width), Px(Height))
    \/ time < MaxTimeBoth * TimeStep /\ update(Px(Width), Px(Height))

SpecRefs == Init /\ [][NextRefs]_vars

\* Pulling: a castle where key '3' puts it, one hand that pinches a point
\* of it, moves while pinching and lets go.
NextPull ==
    \/ \E dt \in ClockSteps : time = 0 /\ spawnCastle(CastlePt.x, CastlePt.y, dt)
    \/ \E p \in WallHands, g \in {"PINCH", "GENERIC"} :
           handleInteraction3D(0, p.x, p.y, p.z, g, p.rot)
    \/ PinchInput(PinchPts)
    \/ time < MaxTimePull * TimeStep /\ update(Px(Width), Px(Height))

SpecPull == Init /\ [][NextPull]_vars

\* Ids: cubes and pyramids spawned at any time between the frames, also
\* within the same millisecond, one hand that pinches or opens over the
\* spawn place.
NextIds ==
    \/ \E dt \in KeyClockSteps : spawnCube3D(SpawnPt.x, SpawnPt.y, dt)
    \/ \E dt \in KeyClockSteps : spawnPyramid3D(SpawnPt.x, SpawnPt.y, dt)
    \/ \E g \in {"PINCH", "GENERIC"} :
           handleInteraction3D(0, SpawnPt.x, SpawnPt.y, 0, g, 0)
    \/ PinchInput(FarPinchPts)
    \/ time < MaxTime * TimeStep /\ update(Px(Width), Px(Height))

SpecIds == Init /\ [][NextIds]_vars

\* Turning a stack over: two cubes spawned before the first frame, one hand
\* that puts the first on the second and then lifts the second while the
\* first is locked.
NextCycle ==
    \/ SpawnCubes
    \/ \E p \in CycleHands : handleInteraction3D(0, p.x, p.y, p.z, "PINCH", p.rot)
    \/ handleInteraction3D(0, SpawnPt.x, 0, 0, "GENERIC", 0)
    \/ PinchInput(FarPinchPts)
    \/ time < MaxTimeCycle * TimeStep /\ update(Px(Width), Px(Height))

SpecCycle == Init /\ [][NextCycle]_vars

\* Glow: one cube spawned before the first frame, one hand that opens or
\* pinches over the spawn place in some frames and is not seen in others.
NextGlow ==
    \/ \E dt \in ClockSteps :
           time = 0 /\ rigidBodies = <<>> /\ spawnCube3D(SpawnPt.x, SpawnPt.y, dt)
    \/ \E g \in {"PINCH", "GENERIC"} :
           handleInteraction3D(0, SpawnPt.x, SpawnPt.y, 0, g, 0)
    \/ PinchInput(FarPinchPts)
    \/ time < MaxTimeGlow * TimeStep /\ update(Px(Width), Px(Height))

SpecGlow == Init /\ [][NextGlow]_vars

\* Horns: a castle spawned before the first frame, a face whose forehead is
\* over the battlements, one hand that pinches on the forehead points and
\* away from everything, and crumples and folds next to them.
NextHorn ==
    \/ \E dt \in ClockSteps : time = 0 /\ spawnCastle(CastlePt.x, CastlePt.y, dt)
    \/ \E p \in WallHands, g \in Gestures :
           handleInteraction3D(0, p.x, p.y, p.z, g, p.rot)
    \/ \E rnd \in RandomDraws : crumple(rnd)
    \/ PinchInput(HornPinchPts \cup FarPinchPts)
    \/ \E v \in Velocities : fold(v)
    \/ \E face \in Faces, isHornsActive \in BOOLEAN :
           objects # <<>> /\ updateHorns(face, isHornsActive, Px(Width), Px(Height))
    \/ time < MaxTime * TimeStep /\ update(Px(Width), Px(Height))

SpecHorn == Init /\ [][NextHorn]_vars

\* The rigid-body half of update as a function of rigidBodies.  The lists
\* are drawn from what the public field admits: bodies at rest and moving,
\* at the origin and just above the floor, free, stacked on the other body
\* of the list after the stabilization lock has run out, or left with the
\* id of a body that is no longer in the list.

\* positions: the origin, and 0.2 above where a body rests on the floor
KinPositions ==
    {ZeroV,
     [x |-> CanvasCx, y |-> Px(Height) - Px(CubeHalf) - 20, z |-> Px(10)]}

\* velocities in hundredths per tick
KinVelocities ==
    {ZeroV, [x |-> 200, y |-> 300, z |-> -100], [x |-> 0, y |-> -400, z |-> 0]}

\* the id of a body that is not in the list
GoneId == <<"cube", 9>>

\* a body turned by one drag step of a hand twisted by one radian
TurnedQ == qMult(IdentityQ, qFromAxisAngle([x |-> 0, y |-> 1, z |-> 0], 100 * 15))

\* the body spawned at clock value ms, as later frames left it
KinBody(ms, pos, vel, rot, target, timer) ==
    [NewBody("cube", "cube", pos.x, pos.y, ms) EXCEPT
        !.position = pos, !.velocity = vel, !.rotation = rot,
        !.snapTarget = target, !.snapTimer = timer]

\* one body, and two bodies of which at most one is stacked on the other
KinLists ==
    {<<KinBody(1, p, v, TurnedQ, t, k)>> :
        p \in KinPositions, v \in KinVelocities, t \in {Null, GoneId}, k \in {0, 1}}
    \cup
    {<<KinBody(1, p1, v, TurnedQ, t1, 0), KinBody(2, p2, ZeroV, IdentityQ, t2, k)>> :
        p1 \in KinPositions, p2 \in KinPositions, v \in KinVelocities,
        t1 \in {Null, GoneId}, t2 \in {Null, GoneId, <<"cube", 1>>}, k \in {0, 1}}
    \cup
    {<<KinBody(1, p1, ZeroV, TurnedQ, <<"cube", 2>>, k), KinBody(2, p2, v, IdentityQ, t2, 0)>> :
        p1 \in KinPositions, p2 \in KinPositions, v \in KinVelocities,
        t2 \in {Null, GoneId}, k \in {0, 1}}

InitKin ==
    /\ rigidBodies \in KinLists
    /\ heldObjects = <<>>
    /\ objects = <<>>
    /\ mouseSprings = <<>>
    /\ time = 0
    /\ now = 0
    /\ turn = 0
    /\ stage = "interact3D"
    /\ cur = NoHand
    /\ grabbed = [h \in Actors |-> "no"]
    /\ freed = {}

NextKin == time < MaxTime * TimeStep /\ update(Px(Width), Px(Height))

SpecKin == InitKin /\ [][NextKin]_vars

\* The soft-body half of update as a function of one object made of one
\* stick between two unpinned points at rest, the second point to the right
\* of the first.

\* rest lengths of the stick, pixels
StickRests == {19, 50}

\* distances of the two points, pixels
StickGaps == {10, 25, 39, 60, 100, 150, 190, 500}

\* x and y of the first point, pixels
StickOrigins == {0, 100}

\* the object with rest length l and the points at (o, o) and (o + d, o)
NewStick(o, l, d) ==
    [id |-> <<"stick", l, d>>, type |-> "generic",
     points |-> <<NewPoint(Px(o), Px(o), FALSE), NewPoint(Px(o + d), Px(o), FALSE)>>,
     sticks |-> <<[p0 |-> 1, p1 |-> 2, length |-> Px(l)]>>]

InitStick ==
    /\ rigidBodies = <<>>
    /\ heldObjects = <<>>
    /\ \E o \in StickOrigins, l \in StickRests, d \in StickGaps :
           /\ d # l
           /\ d <= l * BreakingThreshold
           /\ objects = <<NewStick(o, l, d)>>
    /\ mouseSprings = <<>>
    /\ time = 0
    /\ now = 0
    /\ turn = 0
    /\ stage = "interact3D"
    /\ cur = NoHand
    /\ grabbed = [h \in Actors |-> "no"]
    /\ freed = {}

SpecStick == InitStick /\ [][NextKin]_vars

\* The soft-body half of update as a function of one object made of a chain
\* of three sticks over four points on a horizontal line, the sticks pushed
\* from left to right.

\* rest length of the sticks of the chain, pixels
ChainRest == 20

\* distances of neighbouring points, pixels: at rest, stretched, and beyond
\* rest length x breakingThreshold
ChainGaps == {20, 30, 250}

\* x and y of the first point, pixels
ChainOrigin == 100

\* the chain with the gaps g[1], g[2], g[3], its first point pinned or not
NewChain(g, pinned) ==
    LET x1 == ChainOrigin
        x2 == x1 + g[1]
        x3 == x2 + g[2]
        x4 == x3 + g[3]
    IN  [id |-> <<"chain", g, pinned>>, type |-> "generic",
         points |-> <<NewPoint(Px(x1), Px(ChainOrigin), pinned),
                      NewPoint(Px(x2), Px(ChainOrigin), FALSE),
                      NewPoint(Px(x3), Px(ChainOrigin), FALSE),
                      NewPoint(Px(x4), Px(ChainOrigin), FALSE)>>,
         sticks |-> [k \in 1 .. 3 |-> [p0 |-> k, p1 |-> k + 1, length |-> Px(ChainRest)]]]

InitChain ==
    /\ rigidBodies = <<>>
    /\ heldObjects = <<>>
    /\ \E g \in [1 .. 3 -> ChainGaps], pinned \in BOOLEAN :
           objects = <<NewChain(g, pinned)>>
    /\ mouseSprings = <<>>
    /\ time = 0
    /\ now = 0
    /\ turn = 0
    /\ stage = "interact3D"
    /\ cur = NoHand
    /\ grabbed = [h \in Actors |-> "no"]
    /\ freed = {}

SpecChain == InitChain /\ [][NextKin]_vars

(* ---------------------------------------------------------------------- *)
(* Steps, as the properties below tell them apart                          *)
(* ---------------------------------------------------------------------- *)

\* the step is a call of update
IsUpdate == time' # time

\* the step is a call of handleInteraction3D by actor h
IsInteraction3D(h) == stage = "interact3D" /\ stage' # "interact3D" /\ turn = h

\* the step is a call of handleInteraction3D by actor h that takes the
\* release branch for a hold record of h
IsRelease(h) ==
    IsInteraction3D(h) /\ cur'.gesture # "PINCH" /\ h \in DOMAIN heldObjects

\* the step is a call of reset
IsReset ==
    /\ Idle
    /\ rigidBodies # <<>> \/ objects # <<>>
    /\ rigidBodies' = <<>>
    /\ objects' = <<>>

\* body i of the list is the same body after the step
SameBody(i) == i <= Len(rigidBodies') /\ rigidBodies'[i].id = rigidBodies[i].id

\* position, velocity and rotation of body i are left alone by the step
Frozen(i) ==
    /\ rigidBodies'[i].position = rigidBodies[i].position
    /\ rigidBodies'[i].velocity = rigidBodies[i].velocity
    /\ rigidBodies'[i].rotation = rigidBodies[i].rotation

(* ---------------------------------------------------------------------- *)
(* Rigid bodies: holding                                                   *)
(* ---------------------------------------------------------------------- *)

\* C1 (hold exclusivity): no reachable state has two hold records that
\* refer to the same body; in particular a grab attempt by a second actor
\* inside the collider of a body another actor holds creates no record.
C1_HoldExclusivity ==
    \A h1, h2 \in DOMAIN heldObjects :
        h1 # h2 => heldObjects[h1].bodyId # heldObjects[h2].bodyId

\* C3 (a held body is never integrated): update leaves position, velocity,
\* rotation, snapTarget and snapTimer of a body alone whose isHeld flag is
\* set when update starts, and of a body that was grabbed in the frame
\* this update ends.
C3_HeldNotIntegrated ==
    [][IsUpdate =>
        \A i \in 1 .. Len(rigidBodies) :
            (\/ rigidBodies[i].isHeld
             \/ \E h \in DOMAIN heldObjects :
                    /\ grabbed[h] = "now"
                    /\ FindBody(rigidBodies, heldObjects[h].bodyId) = i)
            => /\ Frozen(i)
               /\ rigidBodies'[i].snapTarget = rigidBodies[i].snapTarget
               /\ rigidBodies'[i].snapTimer = rigidBodies[i].snapTimer]_vars

\* C4 (stabilization lock): update leaves position, velocity and rotation
\* of a body alone that is not held and has snapTimer = n > 0, and sets its
\* snapTimer to n - 1; and no other step moves such a body as long as it is
\* not grabbed (its isHeld flag stays clear and no hold record refers to
\* it), so that it stays where checkSnapping put it while the lock counts
\* down.
C4_StabilizationLock ==
    [][\A i \in 1 .. Len(rigidBodies) :
           (/\ SameBody(i)
            /\ rigidBodies[i].snapTimer > 0
            /\ ~rigidBodies[i].isHeld
            /\ ~rigidBodies'[i].isHeld
            /\ \A h \in DOMAIN heldObjects : heldObjects[h].bodyId # rigidBodies[i].id)
           => /\ rigidBodies'[i].position = rigidBodies[i].position
              /\ IsUpdate => /\ Frozen(i)
                             /\ rigidBodies'[i].snapTimer = rigidBodies[i].snapTimer - 1]_vars

\* a released body sits locked on its snap target after one update of the
\* countdown
C4_Witness ==
    \E i, t \in 1 .. Len(rigidBodies) :
        /\ ~rigidBodies[i].isHeld
        /\ rigidBodies[i].snapTimer = SnapLock - 1
        /\ rigidBodies[i].snapTarget = rigidBodies[t].id
        /\ \A h \in DOMAIN heldObjects : heldObjects[h].bodyId # rigidBodies[i].id
        /\ rigidBodies[i].position.y = rigidBodies[t].position.y - Px(ExpectedDist)

(* ---------------------------------------------------------------------- *)
(* Rigid bodies: release                                                   *)
(* ---------------------------------------------------------------------- *)

\* the body a release by actor h acts on: an index, 0 if the body is gone
Released(h) == FindBody(rigidBodies, heldObjects[h].bodyId)

\* body j passes the stacking test for body a: another id, closer than 50
\* on x and on z, below a by more than 0 and less than 100
StackTest(a, j) ==
    /\ rigidBodies[j].id # rigidBodies[a].id
    /\ Abs(rigidBodies[a].position.x - rigidBodies[j].position.x) < Px(SnapThreshold)
    /\ Abs(rigidBodies[a].position.z - rigidBodies[j].position.z) < Px(SnapThreshold)
    /\ rigidBodies[j].position.y - rigidBodies[a].position.y > 0
    /\ rigidBodies[j].position.y - rigidBodies[a].position.y < Px(ExpectedDist + SnapSlack)

\* body b is straight below body a, within the stacking range
Above(a, b) ==
    /\ rigidBodies[b].id # rigidBodies[a].id
    /\ rigidBodies[a].position.x = rigidBodies[b].position.x
    /\ rigidBodies[a].position.z = rigidBodies[b].position.z
    /\ rigidBodies[b].position.y - rigidBodies[a].position.y > 0
    /\ rigidBodies[b].position.y - rigidBodies[a].position.y < Px(ExpectedDist + SnapSlack)

\* the step leaves body a stacked on body b
Snapped(a, b) ==
    /\ rigidBodies'[a].position = [x |-> rigidBodies[b].position.x,
                                   y |-> rigidBodies[b].position.y - Px(ExpectedDist),
                                   z |-> rigidBodies[b].position.z]
    /\ rigidBodies'[a].rotation = rigidBodies[b].rotation
    /\ rigidBodies'[a].velocity = ZeroV
    /\ rigidBodies'[a].snapTarget = rigidBodies[b].id
    /\ rigidBodies'[a].snapTimer = SnapLock

\* C7 (snap determinism, as the code has it): when held body A is released
\* while A.x = B.x, A.z = B.z and 0 < B.y - A.y < 100, and B is the first
\* body in the order of rigidBodies that passes the stacking test for A,
\* then A ends at (B.x, B.y - 60, B.z) with B's rotation, velocity 0,
\* snapTarget = B.id and snapTimer = 20.
C7_SnapFirstMatch ==
    [][\A h \in Actors :
           IsRelease(h) /\ Released(h) # 0 =>
               \A b \in 1 .. Len(rigidBodies) :
                   (/\ Above(Released(h), b)
                    /\ \A j \in 1 .. (b - 1) : ~StackTest(Released(h), j))
                   => Snapped(Released(h), b)]_vars

\* C7 as stated: the same for every body set containing A and B, whatever
\* other bodies there are.
C7_SnapDeterminism ==
    [][\A h \in Actors :
           IsRelease(h) /\ Released(h) # 0 =>
               \A b \in 1 .. Len(rigidBodies) :
                   Above(Released(h), b) => Snapped(Released(h), b)]_vars

\* a body was just released onto the body straight below it: it is locked
\* for 20 ticks, 60 above its snap target
C7_Witness ==
    \E a, b \in 1 .. Len(rigidBodies) :
        /\ a # b
        /\ ~rigidBodies[a].isHeld
        /\ rigidBodies[a].snapTimer = SnapLock
        /\ rigidBodies[a].snapTarget = rigidBodies[b].id
        /\ rigidBodies[a].velocity = ZeroV
        /\ rigidBodies[a].position = [x |-> rigidBodies[b].position.x,
                                      y |-> rigidBodies[b].position.y - Px(ExpectedDist),
                                      z |-> rigidBodies[b].position.z]

\* C8 (release resumes from zero velocity): when an actor releases, with no
\* body passing the stacking test, the body it grabbed in the frame before,
\* the body's velocity right after the release is (0, 0, 0).
C8_ReleaseFromZero ==
    [][\A h \in Actors :
           (/\ IsRelease(h)
            /\ grabbed[h] = "last"
            /\ Released(h) # 0
            /\ \A j \in 1 .. Len(rigidBodies) : ~StackTest(Released(h), j))
           => rigidBodies'[Released(h)].velocity = ZeroV]_vars

(* ---------------------------------------------------------------------- *)
(* Soft bodies                                                             *)
(* ---------------------------------------------------------------------- *)

\* object o of the list is the same object after the step
SameObject(o) == o <= Len(objects') /\ objects'[o].id = objects[o].id

\* C2 (pinned invariant): update leaves the (x, y) of every pinned point
\* alone, whatever gravity, sticks and active interaction springs do.
C2_PinnedInvariant ==
    [][IsUpdate =>
        \A o \in 1 .. Len(objects) :
            \A k \in 1 .. Len(objects[o].points) :
                objects[o].points[k].isPinned =>
                    /\ objects'[o].points[k].x = objects[o].points[k].x
                    /\ objects'[o].points[k].y = objects[o].points[k].y]_vars

\* the sticks of an object, as a set
StickSet(obj) == {obj.sticks[k] : k \in 1 .. Len(obj.sticks)}

\* obj as update has it after the integration step
Integrated(obj) ==
    [obj EXCEPT !.points = [k \in 1 .. Len(obj.points) |->
                               IntegratePoint(obj.points[k], Px(Width), Px(Height))]]

RECURSIVE VisitDown(_, _, _)
\* obj after a relaxation pass has visited its sticks from k down to s + 1
VisitDown(obj, k, s) ==
    IF k <= s \/ k > Len(obj.sticks) THEN obj
    ELSE VisitDown(StickVisit(obj, k), k - 1, s)

\* the endpoints of stick s of obj are further apart than length x
\* breakingThreshold
Overstretched(obj, s) ==
    LET p0 == obj.points[obj.sticks[s].p0]
        p1 == obj.points[obj.sticks[s].p1]
    IN  /\ ~IsNaN(p0)
        /\ ~IsNaN(p1)
        /\ Hypot(p1.x - p0.x, p1.y - p0.y) > obj.sticks[s].length * BreakingThreshold

\* C5 (breaking is permanent): no step adds a stick to an existing object,
\* and a stick that is overstretched when the first relaxation pass of an
\* update reaches it is gone after that update.
C5_BreakingPermanent ==
    [][\A o \in 1 .. Len(objects) :
           SameObject(o) =>
               /\ StickSet(objects'[o]) \subseteq StickSet(objects[o])
               /\ IsUpdate =>
                      \A s \in 1 .. Len(objects[o].sticks) :
                          Overstretched(VisitDown(Integrated(objects[o]),
                                                  Len(objects[o].sticks), s), s)
                          => objects[o].sticks[s] \notin StickSet(objects'[o])]_vars

\* a castle has lost a stick
C5_Witness ==
    \E o \in 1 .. Len(objects) :
        /\ objects[o].type = "castle"
        /\ Len(objects[o].sticks) < Len(NewCastle(0, 0, 0).sticks)

\* C6 (zero-length guard): relaxation skips a stick whose endpoints
\* coincide, so that no point ever has a non-finite coordinate.
C6_ZeroLengthGuard ==
    \A o \in 1 .. Len(objects) :
        \A k \in 1 .. Len(objects[o].points) : ~IsNaN(objects[o].points[k])

(* ---------------------------------------------------------------------- *)
(* The two maps                                                            *)
(* ---------------------------------------------------------------------- *)

\* the actors that have a spring
SpringHands(springs) == {springs[k].hand : k \in 1 .. Len(springs)}

\* the point the spring of actor h is attached to
SpringTarget(springs, h) ==
    LET e == springs[SpringIndex(springs, h)] IN <<e.obj, e.pt>>

\* the step is a call of handleInteraction by actor h
IsInteraction(h) == stage = "interact" /\ turn = h

\* C9 (per-actor cardinality): every actor has at most one hold record and
\* at most one spring, and no step other than reset, which clears both
\* maps, changes heldObjects and mouseSprings together.
C9_PerActorCardinality ==
    /\ [](/\ DOMAIN heldObjects \subseteq Actors
          /\ \A h \in Actors :
                 Cardinality({k \in 1 .. Len(mouseSprings) : mouseSprings[k].hand = h}) <= 1)
    /\ [][~IsReset => heldObjects' = heldObjects \/ mouseSprings' = mouseSprings]_vars

\* both actors have a hold record and a spring at once
C9_Witness ==
    \A h \in Actors :
        h \in DOMAIN heldObjects /\ h \in SpringHands(mouseSprings)

\* C10 (no retargeting without release): an actor's hold record keeps its
\* bodyId, and its spring keeps its point, until the record is removed, and
\* a record is removed only by a not-grabbing (not-pinching) input of that
\* actor or by reset.
C10_NoRetargeting ==
    [][\A h \in Actors :
           /\ h \in DOMAIN heldObjects =>
                  IF h \in DOMAIN heldObjects'
                  THEN heldObjects'[h].bodyId = heldObjects[h].bodyId
                  ELSE IsReset \/ (IsInteraction3D(h) /\ cur'.gesture # "PINCH")
           /\ h \in SpringHands(mouseSprings) =>
                  IF h \in SpringHands(mouseSprings')
                  THEN SpringTarget(mouseSprings', h) = SpringTarget(mouseSprings, h)
                  ELSE IsReset \/ (IsInteraction(h) /\ cur.gesture # "PINCH")]_vars

\* an actor that has held a body since an earlier frame has just sent a
\* grabbing input while another body is nearer to its hand than the body it
\* holds, and an actor has a spring that has outlived an update
C10_Witness ==
    /\ stage = "interact"
    /\ cur.gesture = "PINCH"
    /\ turn \in DOMAIN heldObjects
    /\ grabbed[turn] \in {"last", "old"}
    /\ \E a, b \in 1 .. Len(rigidBodies) :
           /\ rigidBodies[a].id = heldObjects[turn].bodyId
           /\ rigidBodies[b].id # rigidBodies[a].id
           /\ ScreenDist(rigidBodies[b], SpawnPt.x, SpawnPt.y)
                  < ScreenDist(rigidBodies[a], SpawnPt.x, SpawnPt.y)
    /\ mouseSprings # <<>>
    /\ time > 0

(* ---------------------------------------------------------------------- *)
(* Inputs that find no candidate                                           *)
(* ---------------------------------------------------------------------- *)

\* no body lies within its collider radius of (x, y)
NoBodyNear(x, y) ==
    \A i \in 1 .. Len(rigidBodies) :
        ScreenDist(rigidBodies[i], x, y) >= colliderRadius(rigidBodies[i])

\* no point of an object open to interaction lies within the capture radius
\* of (x, y)
NoPointNear(x, y) ==
    \A o \in 1 .. Len(objects) :
        objects[o].type # "devil_horn" =>
            \A k \in 1 .. Len(objects[o].points) :
                \/ IsNaN(objects[o].points[k])
                \/ Hypot(objects[o].points[k].x - x, objects[o].points[k].y - y)
                       >= Px(CaptureRadius)

\* the step is a grab attempt of actor h at p that finds no candidate
IsGrabMiss(h, p) ==
    /\ handleInteraction3D(h, p.x, p.y, p.z, "PINCH", p.rot)
    /\ h \notin DOMAIN heldObjects
    /\ NoBodyNear(p.x, p.y)

\* the step is a pinch of the unattached actor h at p that finds no candidate
IsPinchMiss(h, p) ==
    /\ handleInteraction(h, p.x, p.y, TRUE)
    /\ h \notin SpringHands(mouseSprings)
    /\ NoPointNear(p.x, p.y)

\* the step leaves the soft bodies and the springs as they are
PinchMissNoChange == mouseSprings' = mouseSprings /\ objects' = objects

\* C11 (no candidate means no state change, as the code has it): a grab
\* attempt that finds no body within its collider radius creates no hold
\* record and changes no field of any rigid body other than glow, which the
\* first step of handleInteraction3D sets to 0 for every body that is not
\* held and glows below 0.5; a pinch of an unattached actor that finds no
\* point within the capture radius changes nothing.
C11_NoCandidateGlowOnly ==
    [][/\ \A h \in Actors, p \in StackHands :
              IsGrabMiss(h, p) =>
                  /\ heldObjects' = heldObjects
                  /\ rigidBodies' =
                         [i \in 1 .. Len(rigidBodies) |->
                             [rigidBodies[i] EXCEPT !.glow =
                                 IF ~rigidBodies[i].isHeld /\ DLess(@, GlowHalf)
                                 THEN GlowNone ELSE @]]
       /\ \A h \in Actors, p \in FarPinchPts :
              IsPinchMiss(h, p) => PinchMissNoChange]_vars

\* C11 as stated: such a grab attempt changes no field of any rigid body.
C11_NoCandidateNoChange ==
    [][/\ \A h \in Actors, p \in StackHands :
              IsGrabMiss(h, p) =>
                  heldObjects' = heldObjects /\ rigidBodies' = rigidBodies
       /\ \A h \in Actors, p \in FarPinchPts :
              IsPinchMiss(h, p) => PinchMissNoChange]_vars

\* a hand has just sent a grabbing input away from every body and has no
\* hold record, while a body that is not held has its glow at 0 and a castle
\* stands with no spring attached
C11_Witness ==
    /\ stage = "interact"
    /\ cur.gesture = "PINCH"
    /\ turn \notin DOMAIN heldObjects
    /\ \E p \in StackHands : NoBodyNear(p.x, p.y)
    /\ \E i \in 1 .. Len(rigidBodies) :
           ~rigidBodies[i].isHeld /\ rigidBodies[i].glow = GlowNone
    /\ objects # <<>>
    /\ mouseSprings = <<>>

(* ---------------------------------------------------------------------- *)
(* Rigid bodies: the physics of update                                     *)
(* ---------------------------------------------------------------------- *)

\* the y a body rests at on the floor
FloorRest == Px(Height) - Px(CubeHalf)

\* body i is past the hold test and the stabilization lock of update
Unlocked(i) == ~rigidBodies[i].isHeld /\ rigidBodies[i].snapTimer = 0

\* the snapTarget of body i names no body of the list
Dangling(i) ==
    /\ rigidBodies[i].snapTarget # Null
    /\ \A j \in 1 .. Len(rigidBodies) : rigidBodies[j].id # rigidBodies[i].snapTarget

\* the vertical velocity of body i after gravity was added: the velocity of
\* the position step
Incoming(i) == rigidBodies[i].velocity.y + Gravity

\* body i, moved by its velocity after gravity, would be below the floor
Penetrates(i) == rigidBodies[i].position.y + Incoming(i) > FloorRest

\* the step gives body i one free-fall integration: gravity, velocity,
\* floor collision, drag
Fell(i) ==
    LET b == rigidBodies[i]
        vy == Incoming(i)
    IN  /\ rigidBodies'[i].position =
               [x |-> b.position.x + b.velocity.x,
                y |-> IF Penetrates(i) THEN FloorRest ELSE b.position.y + vy,
                z |-> b.position.z + b.velocity.z]
        /\ rigidBodies'[i].velocity =
               IF Penetrates(i)
               THEN [x |-> MulF(MulF(b.velocity.x, 80), 98),
                     y |-> MulF(MulF(vy, -40), 98),
                     z |-> MulF(MulF(b.velocity.z, 80), 98)]
               ELSE [x |-> MulF(b.velocity.x, 98),
                     y |-> MulF(vy, 98),
                     z |-> MulF(b.velocity.z, 98)]
        /\ rigidBodies'[i].rotation = b.rotation

\* C12 (dangling snap target): update sets the snapTarget of a body to null
\* that is not held, has snapTimer = 0 and whose snapTarget is the id of no
\* body of the list, and gives the body its free-fall integration in the
\* same call.
C12_DanglingSnapTarget ==
    [][IsUpdate =>
        \A i \in 1 .. Len(rigidBodies) :
            Unlocked(i) /\ Dangling(i) =>
                /\ rigidBodies'[i].snapTarget = Null
                /\ rigidBodies'[i].snapTimer = 0
                /\ Fell(i)]_vars

\* after an update that counted a lock down to 0, a body is left with the
\* id of a body that is gone
C12_Witness ==
    /\ time > 0
    /\ \E i \in 1 .. Len(rigidBodies) : Unlocked(i) /\ Dangling(i)

\* C13 (free-fall step): one update takes a body that is not held, not
\* locked and not stacked from position (0, 0, 0) and velocity (0, 0, 0),
\* the floor being far away, to velocity (0, 0.49, 0), which is gravity 0.5
\* times the drag 0.98, and to position (0, 0.5, 0), half a pixel from 0.
C13_FreeFallStep ==
    [][IsUpdate =>
        \A i \in 1 .. Len(rigidBodies) :
            (/\ Unlocked(i)
             /\ rigidBodies[i].snapTarget = Null
             /\ rigidBodies[i].position = ZeroV
             /\ rigidBodies[i].velocity = ZeroV)
            => /\ rigidBodies'[i].velocity = [x |-> 0, y |-> 49, z |-> 0]
               /\ rigidBodies'[i].position = [x |-> 0, y |-> 50, z |-> 0]]_vars

\* a body has made its first free-fall step from rest at the origin
C13_Witness ==
    /\ time = TimeStep
    /\ \E i \in 1 .. Len(rigidBodies) :
           /\ rigidBodies[i].position = [x |-> 0, y |-> 50, z |-> 0]
           /\ rigidBodies[i].velocity = [x |-> 0, y |-> 49, z |-> 0]
           /\ rigidBodies[i].snapTarget = Null

\* C14 (bounce sign): when the position step of a free-falling body ends
\* below the floor plane, update leaves the body at the floor plane with a
\* vertical velocity of -0.4 times the velocity of that position step and
\* with x and z velocities scaled by groundFriction, each then scaled by the
\* drag that ends the step; a body that came down goes up or rests.
C14_BounceSign ==
    [][IsUpdate =>
        \A i \in 1 .. Len(rigidBodies) :
            (/\ Unlocked(i)
             /\ rigidBodies[i].snapTarget = Null \/ Dangling(i)
             /\ Penetrates(i))
            => /\ rigidBodies'[i].position.y = FloorRest
               /\ rigidBodies'[i].velocity.y = MulF(MulF(Incoming(i), -40), 98)
               /\ Incoming(i) > 0 => rigidBodies'[i].velocity.y <= 0
               /\ rigidBodies'[i].velocity.x =
                      MulF(MulF(rigidBodies[i].velocity.x, GroundFriction), 98)
               /\ rigidBodies'[i].velocity.z =
                      MulF(MulF(rigidBodies[i].velocity.z, GroundFriction), 98)]_vars

\* a body that moved sideways has hit the floor: it lies on the floor plane
\* and goes up, slower sideways than it came
C14_Witness ==
    /\ time > 0
    /\ \E i \in 1 .. Len(rigidBodies) :
           /\ rigidBodies[i].position.y = FloorRest
           /\ rigidBodies[i].velocity.y < 0
           /\ rigidBodies[i].velocity.x > 0
           /\ rigidBodies[i].velocity.x < 200

(* ---------------------------------------------------------------------- *)
(* Rigid bodies: stacks                                                    *)
(* ---------------------------------------------------------------------- *)

\* body t as the loop of update has it when it reaches body i: bodies
\* before i in the list have had their iteration, the others have not
AsSeenBy(i, t) == IF t < i THEN rigidBodies'[t] ELSE rigidBodies[t]

\* C19 (snap-follow step): update gives a body that is not held, has
\* snapTimer = 0 and whose snapTarget is the id of a body of the list the
\* x, z and rotation of that body and its y less 60, as the loop finds that
\* body, and leaves the velocity and the snapTarget of the follower alone.
C19_SnapFollow ==
    [][IsUpdate =>
        \A i \in 1 .. Len(rigidBodies) :
            Unlocked(i) /\ rigidBodies[i].snapTarget # Null /\ ~Dangling(i) =>
                LET target == AsSeenBy(i, FindBody(rigidBodies, rigidBodies[i].snapTarget))
                IN  /\ rigidBodies'[i].position =
                           [x |-> target.position.x,
                            y |-> target.position.y - Px(60),
                            z |-> target.position.z]
                    /\ rigidBodies'[i].rotation = target.rotation
                    /\ rigidBodies'[i].velocity = rigidBodies[i].velocity
                    /\ rigidBodies'[i].snapTarget = rigidBodies[i].snapTarget
                    /\ rigidBodies'[i].snapTimer = 0]_vars

\* a follower sits 60 above a target that has moved since the first frame,
\* turned like it
C19_Witness ==
    /\ time > 0
    /\ \E i, t \in 1 .. Len(rigidBodies) :
           /\ i # t
           /\ Unlocked(i)
           /\ rigidBodies[i].snapTarget = rigidBodies[t].id
           /\ rigidBodies[t].velocity # ZeroV
           /\ rigidBodies[i].rotation = rigidBodies[t].rotation
           /\ rigidBodies[i].position =
                  [x |-> rigidBodies[t].position.x,
                   y |-> rigidBodies[t].position.y - Px(60),
                   z |-> rigidBodies[t].position.z]

(* ---------------------------------------------------------------------- *)
(* Soft bodies: relaxation                                                 *)
(* ---------------------------------------------------------------------- *)

\* the distance of the endpoints of stick s of obj
StickDist(obj, s) ==
    LET p0 == obj.points[obj.sticks[s].p0]
        p1 == obj.points[obj.sticks[s].p1]
    IN  Hypot(p1.x - p0.x, p1.y - p0.y)

\* a hundredth of a pixel per relaxation pass: what truncation may cost
RelaxEps == SolverIterations

\* C15 (constraint convergence): an object of one stick of rest length L
\* between two unpinned points at distance D # L, 0 < D <= 10 L, keeps its
\* stick, and after every update the distance of its points is L; after one
\* update of the points (0, 0) and (100, 0) with L = 50 their distance is
\* less than 100.
C15_Convergence ==
    \A o \in 1 .. Len(objects) :
        (objects[o].type = "generic" /\ time > 0) =>
            /\ Len(objects[o].sticks) = 1
            /\ \A k \in 1 .. Len(objects[o].points) : ~IsNaN(objects[o].points[k])
            /\ Abs(StickDist(objects[o], 1) - objects[o].sticks[1].length) <= RelaxEps
            /\ (time = TimeStep /\ objects[o].id = <<"stick", 50, 100>>) =>
                   StickDist(objects[o], 1) < Px(100)

\* C16 (no match leaves the body in free-fall): the update that follows the
\* release of a held body for which checkSnapping found no candidate gives
\* that body, unless it was grabbed again, its free-fall integration,
\* whatever grabs, snaps and releases came before.
C16_NoMatchFreeFall ==
    [][IsUpdate =>
        \A i \in 1 .. Len(rigidBodies) :
            (rigidBodies[i].id \in freed /\ ~rigidBodies[i].isHeld) => Fell(i)]_vars

(* ---------------------------------------------------------------------- *)
(* Rigid bodies: grab target selection                                     *)
(* ---------------------------------------------------------------------- *)

\* max(scale.x, scale.y, scale.z) x 60 x 0.7 x 1.3 for body i
Reach(i) ==
    LET sc == rigidBodies[i].scale
        m == IF sc.x >= sc.y /\ sc.x >= sc.z THEN sc.x
             ELSE IF sc.y >= sc.z THEN sc.y ELSE sc.z
    IN  MulF(MulF(m * Px(60), 70), 130)

\* the bodies within reach of a hand at p
Near(p) ==
    {i \in 1 .. Len(rigidBodies) : ScreenDist(rigidBodies[i], p.x, p.y) < Reach(i)}

\* the body of Near(p) nearest to p, the earliest of the list among equals
Nearest(p) ==
    CHOOSE i \in Near(p) :
        \A j \in Near(p) :
            \/ ScreenDist(rigidBodies[i], p.x, p.y) < ScreenDist(rigidBodies[j], p.x, p.y)
            \/ /\ ScreenDist(rigidBodies[i], p.x, p.y) = ScreenDist(rigidBodies[j], p.x, p.y)
               /\ i <= j

\* C17 (grab target selection): a grab attempt of an actor without a hold
\* record establishes the hold on the body nearest to the actor on the
\* screen plane among those nearer than max(scale) x 60 x 0.7 x 1.3, the
\* earliest of the list among equals; that body is marked held, its
\* snapTarget cleared and its glow set to 1, and the record stores the
\* body's id, offset = body position - actor position and the actor's
\* twist; if there is no such body no record is created.
C17_GrabTarget ==
    [][\A h \in Actors, p \in StackHands :
           (/\ handleInteraction3D(h, p.x, p.y, p.z, "PINCH", p.rot)
            /\ h \notin DOMAIN heldObjects)
           => IF Near(p) = {} THEN heldObjects' = heldObjects
              ELSE LET t == Nearest(p)
                   IN  /\ DOMAIN heldObjects' = DOMAIN heldObjects \cup {h}
                       /\ heldObjects'[h].bodyId = rigidBodies[t].id
                       /\ heldObjects'[h].offset =
                              [x |-> rigidBodies[t].position.x - p.x,
                               y |-> rigidBodies[t].position.y - p.y,
                               z |-> rigidBodies[t].position.z - p.z]
                       /\ heldObjects'[h].initialHandRot = p.rot
                       /\ rigidBodies'[t].isHeld
                       /\ rigidBodies'[t].snapTarget = Null
                       /\ rigidBodies'[t].glow = GlowFull
                       /\ \A j \in 1 .. Len(rigidBodies) :
                              j # t =>
                                  /\ rigidBodies'[j].isHeld = rigidBodies[j].isHeld
                                  /\ rigidBodies'[j].snapTarget = rigidBodies[j].snapTarget]_vars

\* a hand has just grabbed the earlier of two bodies that are equally near
\* to it, while a third position of the hand is out of reach of a body
C17_Witness ==
    /\ stage = "interact"
    /\ cur.gesture = "PINCH"
    /\ turn \in DOMAIN heldObjects
    /\ grabbed[turn] = "now"
    /\ \E t, j \in 1 .. Len(rigidBodies) :
           /\ t < j
           /\ rigidBodies[t].id = heldObjects[turn].bodyId
           /\ rigidBodies[t].isHeld
           /\ ~rigidBodies[j].isHeld
           /\ rigidBodies[j].position = rigidBodies[t].position
    /\ \E p \in StackHands : Near(p) # 1 .. Len(rigidBodies)

(* ---------------------------------------------------------------------- *)
(* Rigid bodies: stack detection                                           *)
(* ---------------------------------------------------------------------- *)

\* the bodies that pass the stacking test for body a
Stackable(a) == {j \in 1 .. Len(rigidBodies) : StackTest(a, j)}

\* the step leaves every field of body j alone that only checkSnapping and
\* the grab branch write
Unsnapped(j) ==
    /\ Frozen(j)
    /\ rigidBodies'[j].snapTarget = rigidBodies[j].snapTarget
    /\ rigidBodies'[j].snapTimer = rigidBodies[j].snapTimer

\* C18 (stack detection): a release snaps the released body onto the first
\* body in the order of rigidBodies, other than itself, that is nearer than
\* 50 on x and on z and below it by more than 0 and less than 100, and
\* leaves position, rotation, velocity, snapTarget and snapTimer of every
\* other body alone; when no body passes the test these fields are left
\* alone on all bodies.
C18_StackDetection ==
    [][\A h \in Actors :
           IsRelease(h) /\ Released(h) # 0 =>
               LET a == Released(h)
               IN  /\ \A j \in 1 .. Len(rigidBodies) : j # a => Unsnapped(j)
                   /\ ~rigidBodies'[a].isHeld
                   /\ IF Stackable(a) = {} THEN Unsnapped(a)
                      ELSE LET b == CHOOSE j \in Stackable(a) :
                                        \A k \in Stackable(a) : j <= k
                           IN  /\ Snapped(a, b)
                               /\ rigidBodies'[a].glow = GlowFull
                               /\ ~DLess(rigidBodies'[b].glow, GlowHalf)]_vars

\* a hand has just released a body onto the earlier of two bodies at the
\* same place below it
C18_Witness ==
    /\ stage = "interact"
    /\ cur.gesture = "GENERIC"
    /\ \E a, b, c \in 1 .. Len(rigidBodies) :
           /\ a # b /\ a # c /\ b < c
           /\ rigidBodies[c].position = rigidBodies[b].position
           /\ rigidBodies[b].id # rigidBodies[c].id
           /\ ~rigidBodies[a].isHeld
           /\ rigidBodies[a].snapTimer = SnapLock
           /\ rigidBodies[a].snapTarget = rigidBodies[b].id
           /\ rigidBodies[a].glow = GlowFull

(* ---------------------------------------------------------------------- *)
(* Removal during relaxation                                               *)
(* ---------------------------------------------------------------------- *)

RECURSIVE Keep(_, _, _)
\* the entries of snap from k on whose position is in alive, in the order of
\* snap
Keep(snap, alive, k) ==
    IF k > Len(snap) THEN <<>>
    ELSE (IF k \in alive THEN <<snap[k]>> ELSE <<>>) \o Keep(snap, alive, k + 1)

RECURSIVE VisitOnce(_, _, _, _)
\* a pass that visits the sticks of the list snap, taken at the start of the
\* pass, once each from position k down to the first: a visit moves the
\* points or takes the position of the stick out of alive; the list that is
\* left is snap without the removed positions
VisitOnce(obj, snap, k, alive) ==
    IF k = 0 THEN [obj EXCEPT !.sticks = Keep(snap, alive, 1)]
    ELSE LET one == StickVisit([obj EXCEPT !.sticks = <<snap[k]>>], 1)
         IN  VisitOnce(one, snap, k - 1,
                       IF Len(one.sticks) = 0 THEN alive \ {k} ELSE alive)

RECURSIVE RelaxOnce(_, _)
\* i passes of VisitOnce, each over the list the pass before it has left
RelaxOnce(obj, i) ==
    IF i = 0 THEN obj
    ELSE RelaxOnce(VisitOnce(obj, obj.sticks, Len(obj.sticks),
                             1 .. Len(obj.sticks)), i - 1)

\* C20 (safe removal during relaxation): every relaxation pass of update
\* does to an object what one visit of each stick of the list at the start
\* of the pass does, last stick first, whether or not sticks are removed on
\* the way; the sticks that are left are the unbroken ones in their old
\* order.
C20_SafeRemoval ==
    [][IsUpdate =>
        objects' = SpringPulls(
            [o \in 1 .. Len(objects) |->
                IF objects[o].type = "devil_horn" THEN objects[o]
                ELSE RelaxOnce(Integrated(objects[o]), SolverIterations)],
            mouseSprings, 1)]_vars

\* after an update a chain has lost a stick that was not the first of its
\* list, and the stick before it, which the pass reached after the removal
\* and which has a free end, is still there
C20_Witness ==
    /\ time > 0
    /\ \E o \in 1 .. Len(objects) :
           /\ objects[o].id[1] = "chain"
           /\ \E k \in 2 .. 3 :
                  /\ [p0 |-> k, p1 |-> k + 1, length |-> Px(ChainRest)]
                         \notin StickSet(objects[o])
                  /\ [p0 |-> k - 1, p1 |-> k, length |-> Px(ChainRest)]
                         \in StickSet(objects[o])

(* ---------------------------------------------------------------------- *)
(* Stuck actor                                                             *)
(* ---------------------------------------------------------------------- *)

\* the hold record of actor h refers to body i, whose isHeld flag is set
HoldsBody(h, i) ==
    /\ h \in DOMAIN heldObjects
    /\ FindBody(rigidBodies, heldObjects[h].bodyId) = i
    /\ rigidBodies[i].isHeld

\* what a step that is neither a call of handleInteraction3D by actor h nor
\* a reset does to a body actor h holds: the record stays as it is, the body
\* stays held, and update does not move it
StaysHeld(h, i) ==
    /\ h \in DOMAIN heldObjects'
    /\ heldObjects'[h] = heldObjects[h]
    /\ SameBody(i)
    /\ rigidBodies'[i].isHeld
    /\ IsUpdate => Frozen(i)

\* C21 (stuck actor): update leaves heldObjects and mouseSprings as they
\* are; and as long as actor h issues no call of handleInteraction3D and
\* there is no reset, the hold record of h persists and the body it refers
\* to stays held and is not moved by update.
C21_StuckActor ==
    [][/\ IsUpdate => heldObjects' = heldObjects /\ mouseSprings' = mouseSprings
       /\ \A h \in Actors : \A i \in 1 .. Len(rigidBodies) :
              (HoldsBody(h, i) /\ ~IsInteraction3D(h) /\ ~IsReset)
              => StaysHeld(h, i)]_vars

(* ---------------------------------------------------------------------- *)
(* Glow                                                                    *)
(* ---------------------------------------------------------------------- *)

\* C22 (glow range): the glow of every rigid body lies in [0, 1] in every
\* reachable state; in particular the decay of update never takes it
\* below 0.
C22_GlowRange ==
    \A i \in 1 .. Len(rigidBodies) :
        /\ ~DLess(rigidBodies[i].glow, GlowNone)
        /\ ~DLess(GlowFull, rigidBodies[i].glow)

(* ---------------------------------------------------------------------- *)
(* The exempt type                                                         *)
(* ---------------------------------------------------------------------- *)

\* C23 (exempt type): update, crumple and fold leave the points of every
\* object of type devil_horn as they are, and no interaction spring is
\* attached to a point of such an object.
C23_ExemptType ==
    [][/\ \A o \in 1 .. Len(objects) :
              (/\ objects[o].type = "devil_horn"
               /\ IsUpdate \/ stage = "crumple" \/ stage = "fold")
              => SameObject(o) /\ objects'[o].points = objects[o].points
       /\ \A k \in 1 .. Len(mouseSprings') :
              objects'[mouseSprings'[k].obj].type # "devil_horn"]_vars

\* a horn has its point on the anchor of a spring, within reach of the
\* crumple and fold of the hand over the wall, and an update has been run
C23_Witness ==
    /\ time > 0
    /\ \E o \in 1 .. Len(objects), k \in 1 .. Len(mouseSprings), w \in WallHands :
           /\ objects[o].type = "devil_horn"
           /\ Len(objects[o].points) = 1
           /\ objects[o].points[1].x = mouseSprings[k].anchorX
           /\ objects[o].points[1].y = mouseSprings[k].anchorY
           /\ Hypot(objects[o].points[1].x - w.x, objects[o].points[1].y - w.y)
                  < Px(CrumpleRadius)

(* ---------------------------------------------------------------------- *)
(* Spring attachment                                                       *)
(* ---------------------------------------------------------------------- *)

\* the distance of point k of object o from (x, y)
PointDist(o, k, x, y) ==
    Hypot(objects[o].points[k].x - x, objects[o].points[k].y - y)

\* the points <<o, k>> of the objects open to interaction that lie within the
\* capture radius of (x, y)
InReach(x, y) ==
    {c \in UNION {{<<o, k>> : k \in 1 .. Len(objects[o].points)} :
                     o \in 1 .. Len(objects)} :
        /\ objects[c[1]].type # "devil_horn"
        /\ ~IsNaN(objects[c[1]].points[c[2]])
        /\ PointDist(c[1], c[2], x, y) < Px(CaptureRadius)}

\* the springs of the actors other than h are left as they are
OtherSpringsKept(h) ==
    SelectSeq(mouseSprings', LAMBDA e : e.hand # h)
        = SelectSeq(mouseSprings, LAMBDA e : e.hand # h)

\* actor h has a spring on point c after the step, anchored at (x, y)
SpringOn(h, c, x, y) ==
    /\ h \in SpringHands(mouseSprings')
    /\ SpringTarget(mouseSprings', h) = c
    /\ mouseSprings'[SpringIndex(mouseSprings', h)].anchorX = x
    /\ mouseSprings'[SpringIndex(mouseSprings', h)].anchorY = y

\* C24 (spring attach selection): a pinch at (x, y) by an actor without a
\* spring attaches a spring, anchored at (x, y), to a point that is nearest
\* to (x, y) among the points of the non-exempt objects less than 80 pixels
\* away, and creates no spring if there is no such point; a pinch by an
\* actor with a spring moves the anchor to (x, y) and keeps the point.
C24_SpringAttach ==
    [][\A h \in Actors, p \in HornPinchPts \cup FarPinchPts :
           handleInteraction(h, p.x, p.y, TRUE) =>
               /\ OtherSpringsKept(h)
               /\ IF h \in SpringHands(mouseSprings)
                  THEN SpringOn(h, SpringTarget(mouseSprings, h), p.x, p.y)
                  ELSE IF InReach(p.x, p.y) = {}
                  THEN mouseSprings' = mouseSprings
                  ELSE \E c \in InReach(p.x, p.y) :
                           /\ SpringOn(h, c, p.x, p.y)
                           /\ \A d \in InReach(p.x, p.y) :
                                  PointDist(c[1], c[2], p.x, p.y)
                                      <= PointDist(d[1], d[2], p.x, p.y)]_vars

\* a hand has just pinched and got a spring on a point that comes later in
\* the scan than another point within reach of the pinch, which is farther
\* from it
C24_Witness ==
    /\ stage = "interact3D"
    /\ turn = 1
    /\ \E k \in 1 .. Len(mouseSprings) :
           LET e == mouseSprings[k]
           IN  /\ e.hand = 0
               /\ \E d \in InReach(e.anchorX, e.anchorY) :
                      /\ d[1] = e.obj
                      /\ d[2] < e.pt
                      /\ PointDist(e.obj, e.pt, e.anchorX, e.anchorY)
                             < PointDist(d[1], d[2], e.anchorX, e.anchorY)

(* ---------------------------------------------------------------------- *)
(* The held flag                                                           *)
(* ---------------------------------------------------------------------- *)

\* C25 (held-flag consistency): a rigid body has its isHeld flag set if and
\* only if at least one hold record refers to it.
C25_HeldFlag ==
    \A i \in 1 .. Len(rigidBodies) :
        rigidBodies[i].isHeld
            <=> \E h \in DOMAIN heldObjects :
                    heldObjects[h].bodyId = rigidBodies[i].id

(* ---------------------------------------------------------------------- *)
(* Stacks                                                                  *)
(* ---------------------------------------------------------------------- *)

\* C26 (acyclic stacking): no body has itself as snapTarget, and no two
\* bodies have each other as snapTarget.
C26_AcyclicStacking ==
    \A a, b \in 1 .. Len(rigidBodies) :
        ~(/\ rigidBodies[a].snapTarget = rigidBodies[b].id
          /\ rigidBodies[b].snapTarget = rigidBodies[a].id)

\* C27 (stack alignment at the end of a tick): when update returns, every
\* body that was not held and had snapTimer = 0 when it was called, and
\* whose snapTarget is the id of a body B of the list, has the x, z and
\* rotation of B and the y of B less 60, with the values B has when update
\* returns, wherever the two bodies are in the list.
C27_AlignedAtEnd ==
    [][IsUpdate =>
        \A i \in 1 .. Len(rigidBodies) :
            Unlocked(i) /\ rigidBodies[i].snapTarget # Null /\ ~Dangling(i) =>
                LET B == rigidBodies'[FindBody(rigidBodies', rigidBodies'[i].snapTarget)]
                IN  /\ rigidBodies'[i].position =
                           [x |-> B.position.x,
                            y |-> B.position.y - Px(ExpectedDist),
                            z |-> B.position.z]
                    /\ rigidBodies'[i].rotation = B.rotation]_vars

(* ---------------------------------------------------------------------- *)
(* References                                                              *)
(* ---------------------------------------------------------------------- *)

\* every hold record refers to a body of rigidBodies, and every spring to a
\* point of an object of objects
Resolved(bodies, held, objs, springs) ==
    /\ \A h \in DOMAIN held : FindBody(bodies, held[h].bodyId) # 0
    /\ \A k \in 1 .. Len(springs) :
           /\ springs[k].obj \in 1 .. Len(objs)
           /\ springs[k].pt \in 1 .. Len(objs[springs[k].obj].points)

\* the step takes a body out of rigidBodies, or an object out of objects, or
\* a point out of an object
Removes ==
    \/ \E i \in 1 .. Len(rigidBodies) : FindBody(rigidBodies', rigidBodies[i].id) = 0
    \/ \E o \in 1 .. Len(objects) :
           \/ FindObject(objects', objects[o].id) = 0
           \/ /\ objects[o].type # "devil_horn"
              /\ Len(objects'[FindObject(objects', objects[o].id)].points)
                     < Len(objects[o].points)

\* C28 (referential integrity): after every step every hold record refers
\* to a body of rigidBodies and every spring to a point of an object of
\* objects; a step that removes a body, an object or a point of an object
\* open to interaction is a reset, and leaves both maps empty.
C28_ReferentialIntegrity ==
    [][/\ Resolved(rigidBodies', heldObjects', objects', mouseSprings')
       /\ Removes => IsReset /\ heldObjects' = <<>> /\ mouseSprings' = <<>>]_vars

\* a hold record and a spring exist after an update, while a horn has a
\* point within the capture radius of the anchor of the spring
C28_Witness ==
    /\ time > 0
    /\ heldObjects # <<>>
    /\ \E k \in 1 .. Len(mouseSprings), o \in 1 .. Len(objects) :
           /\ objects[o].type = "devil_horn"
           /\ Len(objects[o].points) = 1
           /\ PointDist(o, 1, mouseSprings[k].anchorX, mouseSprings[k].anchorY)
                  < Px(CaptureRadius)

(* ---------------------------------------------------------------------- *)
(* Body ids                                                                *)
(* ---------------------------------------------------------------------- *)

\* C29 (unique body ids): the bodies of rigidBodies have pairwise distinct
\* ids after any sequence of spawns.
C29_UniqueIds ==
    \A i, j \in 1 .. Len(rigidBodies) :
        i # j => rigidBodies[i].id # rigidBodies[j].id

(* ---------------------------------------------------------------------- *)
(* World bounds                                                            *)
(* ---------------------------------------------------------------------- *)

\* a point that is a number and lies within the walls, the floor and the
\* upper clamp of a canvas of the given size
InWorld(p, width, height) ==
    /\ ~IsNaN(p)
    /\ Px(WallMargin) <= p.x /\ p.x <= width - Px(WallMargin)
    /\ Px(Ceiling) <= p.y /\ p.y <= height - Px(WallMargin)

\* C30 (world bounds at end of tick): at the end of every update call every
\* unpinned point of every object that is not a devil_horn has
\* 10 <= x <= width - 10 and -300 <= y <= height - 10.
C30_WorldBounds ==
    [][IsUpdate =>
           \A o \in 1 .. Len(objects') :
               objects'[o].type # "devil_horn" =>
                   \A k \in 1 .. Len(objects'[o].points) :
                       ~objects'[o].points[k].isPinned =>
                           InWorld(objects'[o].points[k], Px(Width), Px(Height))]_vars

====
